---- MODULE Spec2Model ----
(***************************************************************************)
(* The disposal state machine of tsdotnet/disposable: DisposableStateBase, *)
(* the synchronous template DisposableBase and the asynchronous template   *)
(* AsyncDisposableBase, run on one instance.                               *)
(*                                                                         *)
(* Execution is single threaded.  The running synchronous segment is a     *)
(* call stack of frames; a frame is a library method or a piece of user    *)
(* code (a hook override or the finalizer).  User code is nondeterministic:*)
(* it may return, raise, or call back into the object.  Between segments   *)
(* (empty stack) a caller may start a new call, the promise returned by    *)
(* _onDisposeAsync may settle, and a suspended disposeAsync may resume.    *)
(***************************************************************************)
EXTENDS Integers, Sequences, FiniteSets, TLC

\* enum DisposeState
ALIVE == 0
DISPOSE_CALLED == 1
DISPOSING == 2
DISPOSED == 3

\* Calls made on the instance, by callers and by user code together.
MaxCalls == 3

\* Length of the collections handed to the dispose utilities.
MaxItems == 3

\* Largest delay (ms) given to the deferred utilities, and the time (ms) the
\* clock is followed for.
MaxDelay == 2
\* Deferred calls one caller makes, and changes it makes to its array
\* while timers are pending.
MaxBatches == 2
MaxChanges == 1
MaxTime == 3

VARIABLES
    kind,           \* "sync": extends DisposableBase; "async": extends AsyncDisposableBase
    supplied,       \* whether the constructor was given a finalizer
    disposeState,   \* this.__disposeState; frozen models Object.isFrozen of it
    stack,          \* call stack of the running segment, Head(stack) is running
    ret,            \* value returned by the frame that returned last
    exc,            \* condition in flight, "none" when nothing is raised
    entry,          \* what started the running (or last) segment
    teardown,       \* promise returned by _onDisposeAsync
    awaiting,       \* ids of the disposeAsync calls suspended at their await
    promises,       \* promises returned by the disposeAsync calls, in call order
    calls,          \* calls made so far
    count,          \* history: invocations of each hook, grants of _startDispose
    order,          \* history: hooks in the order they were started
    direct,         \* history: a protected state method was called from outside the templates
    finished,       \* history: completed calls of dispose() made by a caller
    first,          \* history: state and counts when the first dispose() completed
    raised,         \* history: <<user code, condition>> for user code that left by raising
    signal,         \* the ObjectDisposedException constructed last
    bulk,           \* the dispose utilities: arguments, position of the running call,
                    \* and what it has done (dispose() calls, console.error, outcome)
    checked,        \* the arguments of the last ObjectDisposedException.throwIfDisposed
    sched,          \* several deferred disposals of one caller: its array, the timers,
                    \* the clock and the dispose() calls made
    legacy          \* an instance of the earlier DisposableBase, which keeps a
                    \* boolean __wasDisposed, given the same calls and user code

vars == <<kind, supplied, disposeState, stack, ret, exc, entry, teardown, awaiting,
          promises, calls, count, order, direct, finished, first, raised, signal,
          bulk, checked, sched, legacy>>

\* The variables of the instance.
instance == <<kind, supplied, disposeState, stack, ret, exc, entry, teardown, awaiting,
              promises, calls, count, order, direct, finished, first, raised, signal,
              checked>>

NoExc == "none"
Hooks == {"_onBeforeDispose", "_onDispose", "_onDisposeAsync", "finalizer"}

\* The condition a piece of user code raises when it fails.
OwnError(fn) ==
    CASE fn = "_onBeforeDispose" -> "BeforeError"
      [] fn = "_onDispose"       -> "TeardownError"
      [] fn = "_onDisposeAsync"  -> "TeardownError"
      [] OTHER                   -> "FinalizerError"

Frame(fn, pc) == [fn |-> fn, pc |-> pc, pend |-> NoExc, id |-> 0, strict |-> FALSE]

----------------------------------------------------------------------------
\* DisposableStateBase: the record and the pure reads

\* constructor: { state: Alive, ...(finalizer && { finalizer }) }
NewDisposeState(finalizer) ==
    [state |-> ALIVE, finalizer |-> finalizer, frozen |-> FALSE]

\* get wasDisposed
WasDisposed_NotAlive(rec) == rec.state # ALIVE

WasDisposed(rec) == rec.state # ALIVE /\ rec.state # DISPOSE_CALLED

\* this.constructor.name: the name of the class the instance was created from,
\* a user's class derived from one of the two templates.
ConstructorName(k) ==
    IF k = "sync" THEN "TestDisposableBase" ELSE "TestAsyncDisposableBase"

Undefined == "undefined"
NoSignal == [name |-> "none", objectName |-> "none", message |-> "none"]

\* new ObjectDisposedException(objectName, message)
ObjectDisposedException(objectName, message) ==
    [name |-> "ObjectDisposedException",
     objectName |-> objectName,
     message |-> IF message = Undefined
                 THEN "Object '" \o objectName \o "' has been disposed and cannot be used."
                 ELSE message]

\* What a caller passes to throwIfDisposed as objectName and message.
ObjectNames == {"Resource", ""}
Messages == {Undefined, "", "Custom message"}
NoArguments == [objectName |-> "none", message |-> "none", call |-> 0]

\* ObjectDisposedException.throwIfDisposed(disposable, objectName, message):
\* the exception it raises, NoSignal when it returns true
ThrowIfDisposed_WhenNotAlive(rec, objectName, message) ==
    IF rec.state # ALIVE THEN ObjectDisposedException(objectName, message) ELSE NoSignal

ThrowIfDisposed(rec, objectName, message) ==
    IF WasDisposed(rec) THEN ObjectDisposedException(objectName, message) ELSE NoSignal

\* assertIsAlive(strict): the condition it raises, NoExc when it returns true
AssertIsAliveRaises_IgnoresStrict(rec, strict) ==
    IF WasDisposed(rec) THEN "ObjectDisposedException" ELSE NoExc

AssertIsAliveRaises(rec, strict) ==
    IF (IF strict THEN rec.state # ALIVE ELSE WasDisposed(rec))
    THEN "ObjectDisposedException"
    ELSE NoExc

\* _startDispose, the guard: true when the call is rejected
StartDisposeRejects_OnlyDisposed(rec) == rec.state = DISPOSED

StartDisposeRejects(rec) == rec.state # ALIVE

\* An assignment to a property of a frozen object raises TypeError (class
\* bodies are strict code) and writes nothing.
SetState(rec, s) ==
    IF rec.frozen THEN [rec |-> rec, err |-> "TypeError"]
    ELSE [rec |-> [rec EXCEPT !.state = s], err |-> NoExc]

\* The same for the finalizer property: a frozen object takes no new property.
SetFinalizer(rec, f) ==
    IF rec.frozen THEN [rec |-> rec, err |-> "TypeError"]
    ELSE [rec |-> [rec EXCEPT !.finalizer = f], err |-> NoExc]

\* _startDispose, the finally block
StartDisposeFinally_AlwaysWrites(rec) == SetState(rec, DISPOSING)

StartDisposeFinally_NoAdvance(rec) == [rec |-> rec, err |-> NoExc]

StartDisposeFinally(rec) ==
    IF rec.state = DISPOSE_CALLED THEN SetState(rec, DISPOSING)
    ELSE [rec |-> rec, err |-> NoExc]

\* _finishDispose up to (not including) the call of the finalizer:
\* read finalizer, delete it, write Disposed, freeze.  delete of an absent
\* property succeeds on a frozen object; delete of a present one raises.
FinishDisposeRecord_KeepsFinalizer(rec) ==
    IF rec.frozen
    THEN [rec |-> rec, err |-> "TypeError", finalizer |-> FALSE]
    ELSE [rec |-> [rec EXCEPT !.state = DISPOSED, !.frozen = TRUE],
          err |-> NoExc, finalizer |-> rec.finalizer]

FinishDisposeRecord_StateNotWritten(rec) ==
    IF rec.frozen
    THEN [rec |-> rec, err |-> "TypeError", finalizer |-> FALSE]
    ELSE [rec |-> [rec EXCEPT !.finalizer = FALSE],
          err |-> NoExc, finalizer |-> rec.finalizer]

FinishDisposeRecord_NoFreeze(rec) ==
    LET deleted == [rec EXCEPT !.finalizer = FALSE]
    IN  [rec |-> [deleted EXCEPT !.state = DISPOSED],
         err |-> NoExc, finalizer |-> rec.finalizer]

FinishDisposeRecord(rec) ==
    LET finalizer == rec.finalizer
        deleted == IF rec.frozen THEN rec ELSE [rec EXCEPT !.finalizer = FALSE]
        written == SetState(deleted, DISPOSED)
    IN  IF rec.frozen /\ rec.finalizer
        THEN [rec |-> rec, err |-> "TypeError", finalizer |-> FALSE]
        ELSE IF written.err # NoExc
        THEN [rec |-> written.rec, err |-> written.err, finalizer |-> FALSE]
        ELSE [rec |-> [written.rec EXCEPT !.frozen = TRUE],
              err |-> NoExc, finalizer |-> finalizer]

----------------------------------------------------------------------------
\* dispose.ts: the items handed to the utilities and the pure part of
\* singleUnsafe

\* What an entry of a collection can be: null, undefined, a primitive value,
\* an object without dispose function, a function that carries a dispose
\* method, an object whose dispose() returns (the tests' MockDisposable), an
\* object whose dispose() raises (the tests' FaultyDisposable), an object
\* whose dispose() changes the caller's array (adds an entry, removes one or
\* reorders it).
ItemKinds == {"null", "undefined", "primitive", "plain", "function", "ok", "faulty",
              "mutator"}

NoError == [by |-> "none", id |-> 0]
ItemError(id) == [by |-> "item", id |-> id]
ClosureError == [by |-> "closure", id |-> 0]

\* The arrays of length n; an entry's id is its place in the caller's array.
ArraysOf(n) == {[i \in 1..n |-> [id |-> i, kind |-> k[i]]] : k \in [1..n -> ItemKinds]}
Arrays == UNION {ArraysOf(n) : n \in 0..MaxItems}

\* if (disposable)
Truthy(item) == item.kind \notin {"null", "undefined"}

\* Arrays that hold an object with a disposeAsync() method and no dispose().
AsyncArrays ==
    {<<[id |-> 1, kind |-> "async"]>>,
     <<[id |-> 1, kind |-> "ok"], [id |-> 2, kind |-> "async"]>>}

\* typeof disposable
TypeOf(item) ==
    CASE item.kind \in {"null", "plain", "ok", "faulty", "mutator", "async",
                         "instance"} -> "object"
      [] item.kind = "function" -> "function"
      [] item.kind = "primitive" -> "number"
      [] OTHER -> "undefined"

\* typeof disposable.dispose, for a value that has properties
TypeOfDispose(item) ==
    IF item.kind \in {"function", "ok", "faulty", "mutator", "instance"}
    THEN "function" ELSE "undefined"

\* disposable.dispose(): the condition it raises, NoError when it returns
DisposeOf(item) == IF item.kind = "faulty" THEN ItemError(item.id) ELSE NoError

\* What the dispose() of an entry can make of the caller's array: a mutator
\* pushes a new disposable, shifts the first entry out, or reverses the
\* array; every other entry leaves it alone.
Reverse(array) == [i \in 1..Len(array) |-> array[Len(array) + 1 - i]]
Pushed(item) == [id |-> MaxItems + item.id, kind |-> "ok"]
Mutations(array, item) ==
    IF item.kind # "mutator" THEN {array}
    ELSE {Reverse(array)}
            \cup (IF Len(array) > 0 THEN {Tail(array)} ELSE {})
            \cup (IF Len(array) < 2 * MaxItems THEN {Append(array, Pushed(item))} ELSE {})

\* An array value: which array it is (the caller's, a copy, the arguments
\* of a variadic call, or no array: null, undefined) and its entries.
TheArguments(items) == [ref |-> "arguments", elems |-> items]
Falsy(array) == array.ref \in {"null", "undefined"}
Null == [ref |-> "null", elems |-> <<>>]

\* disposables.slice(): a new array with the same entries
Slice_SameArray(array) == array

Slice(array) == [ref |-> "copy", elems |-> array.elems]

Nothing == [called |-> FALSE, logged |-> <<>>, raised |-> NoError]

\* singleUnsafe(disposable, trapException): whether dispose() was called,
\* what went to console.error, what is raised to the caller.
SingleUnsafe_AnyTruthy(item, trapException, console) ==
    IF Truthy(item)
    THEN LET ex == IF TypeOfDispose(item) # "function" THEN ItemError(item.id)
                   ELSE DisposeOf(item)
         IN  IF trapException
             THEN [called |-> TRUE,
                   logged |-> IF ex # NoError /\ console THEN <<ex>> ELSE <<>>,
                   raised |-> NoError]
             ELSE [called |-> TRUE, logged |-> <<>>, raised |-> ex]
    ELSE Nothing

SingleUnsafe_NeverTraps(item, trapException, console) ==
    IF Truthy(item) /\ TypeOf(item) = "object"
    THEN IF TypeOfDispose(item) # "function" THEN Nothing
         ELSE [called |-> TRUE, logged |-> <<>>, raised |-> DisposeOf(item)]
    ELSE Nothing

SingleUnsafe(item, trapException, console) ==
    IF Truthy(item) /\ TypeOf(item) = "object"
    THEN IF TypeOfDispose(item) # "function" THEN Nothing
         ELSE LET ex == DisposeOf(item)
              IN  IF trapException
                  THEN [called |-> TRUE,
                        logged |-> IF ex # NoError /\ console THEN <<ex>> ELSE <<>>,
                        raised |-> NoError]
                  ELSE [called |-> TRUE, logged |-> <<>>, raised |-> ex]
    ELSE Nothing

NoOutcome == [status |-> "none", value |-> "none", cond |-> NoError]
Returned(v) == [status |-> "returned", value |-> v, cond |-> NoError]
Raised(e) == [status |-> "raised", value |-> "none", cond |-> e]

\* setTimeout(callback, delay && delay>0 ? delay : 0, ...): the timeout
Timeout_AlwaysZero(delay) == 0

Timeout(delay) == IF delay # 0 /\ delay > 0 THEN delay ELSE 0

\* The delays a caller passes; a delay left out is the default, 0.
Delays == -1..MaxDelay

NoTimer == [state |-> "none", due |-> 0, firedAt |-> 0]

\* Nothing scheduled: the caller's array, the timers set so far (one entry
\* per deferred call, in call order), the clock, the dispose() calls made,
\* the changes the caller made to its array.
NoSchedule ==
    [items |-> <<>>, timers |-> <<>>, now |-> 0, attempts |-> <<>>, changes |-> 0]

\* No utility has been called.  given tells whether the caller holds an
\* array ("caller") or null or undefined in its place; passed will be the
\* entries at the moment of the call, aliased whether the array iterated is
\* the caller's own.  now is the clock, calledAt and delay belong to the
\* call of a deferred utility, timer is what it gave to setTimeout.
Idle(items, console) ==
    [console |-> console, items |-> items, utility |-> "none", pc |-> "idle",
     trap |-> FALSE, work |-> <<>>, index |-> 0, attempts |-> <<>>, log |-> <<>>,
     closure |-> "none", outcome |-> NoOutcome,
     now |-> 0, calledAt |-> 0, delay |-> 0, timer |-> NoTimer,
     given |-> "caller", passed |-> <<>>, aliased |-> FALSE]

----------------------------------------------------------------------------
\* The instance after construction, no call made yet.
\* new DisposableBase(name, finalizer) of the earlier class:
\* __wasDisposed = false, the finalizer kept in __finalizer.
NewLegacy(finalizer) ==
    [wasDisposed |-> FALSE, finalizer |-> finalizer, stack |-> <<>>,
     ret |-> "void", exc |-> NoExc, count |-> [teardown |-> 0, finalizer |-> 0]]

NewInstance ==
    /\ kind \in {"sync", "async"}
    /\ supplied \in BOOLEAN
    /\ disposeState = NewDisposeState(supplied)
    /\ stack = <<>>
    /\ ret = "void"
    /\ exc = NoExc
    /\ entry = "none"
    /\ teardown = "none"
    /\ awaiting = {}
    /\ promises = <<>>
    /\ calls = 0
    /\ count = [before |-> 0, teardown |-> 0, finalizer |-> 0, granted |-> 0, rejected |-> 0,
                reentrant |-> 0]
    /\ order = <<>>
    /\ direct = FALSE
    /\ finished = 0
    /\ first = [state |-> -1, count |-> count]
    /\ raised = {}
    /\ signal = NoSignal
    /\ checked = NoArguments

Init ==
    /\ NewInstance
    /\ bulk = Idle(<<>>, TRUE)
    /\ sched = NoSchedule
    /\ legacy = NewLegacy(supplied)

----------------------------------------------------------------------------
\* The call stack

Top == Head(stack)
Running(fn, pc) == stack # <<>> /\ Top.fn = fn /\ Top.pc = pc

\* A promise of disposeAsync(): outer when a caller (not user code) made the
\* call, ran when the call went on to _onDisposeAsync(), at the disposal
\* state at the moment it settled.
Pending == [status |-> "pending", cond |-> NoExc, at |-> -1,
            outer |-> (stack = <<>>), ran |-> FALSE]

\* The promise of disposeAsync call id settles: it records the disposal state
\* of that moment.
Settle(id, outcome) ==
    promises' = [promises EXCEPT ![id] =
        [@ EXCEPT !.status = IF outcome = NoExc THEN "resolved" ELSE "rejected",
                  !.cond = outcome, !.at = disposeState.state]]

\* The methods a caller or user code may call on an instance of this kind.
Methods ==
    {"_startDispose", "_finishDispose", "assertIsAlive"}
        \cup (IF kind = "sync" THEN {"dispose"} ELSE {"disposeAsync"})

\* The frames a call of method m pushes.  dispose() and disposeAsync() begin
\* with the call of _startDispose(), so that frame is on top.
EnterFrames(m, strict) ==
    CASE m = "dispose" ->
            <<Frame("_startDispose", "start"), Frame("dispose", "afterStart")>>
      [] m = "disposeAsync" ->
            <<Frame("_startDispose", "start"),
              [Frame("disposeAsync", "afterStart") EXCEPT !.id = Len(promises) + 1]>>
      [] m = "assertIsAlive" ->
            <<[Frame("assertIsAlive", "start") EXCEPT !.strict = strict]>>
      [] OTHER -> <<Frame(m, "start")>>

Invoke(m, strict) ==
    /\ calls < MaxCalls
    /\ stack' = EnterFrames(m, strict) \o stack
    /\ promises' = IF m = "disposeAsync" THEN Append(promises, Pending) ELSE promises
    /\ calls' = calls + 1
    /\ direct' = (direct \/ m \in {"_startDispose", "_finishDispose"})
    /\ ret' = "void"
    /\ exc' = NoExc

\* A frame leaves the stack, returning v or raising e.
Leave(v, e) ==
    /\ stack' = Tail(stack)
    /\ ret' = v
    /\ exc' = e

\* Starting a piece of user code.
Start(hook, pc) ==
    /\ stack' = <<Frame(hook, "body"), [Top EXCEPT !.pc = pc]>> \o Tail(stack)
    /\ order' = Append(order, hook)
    /\ ret' = "void"
    /\ exc' = NoExc

\* A dispose() made by a caller (not by user code) completes.
Completes ==
    IF Tail(stack) = <<>>
    THEN /\ finished' = finished + 1
         /\ first' = IF finished = 0
                     THEN [state |-> disposeState.state, count |-> count]
                     ELSE first
    ELSE UNCHANGED <<finished, first>>

----------------------------------------------------------------------------
\* Callers, between segments

CallerDisposes ==
    /\ stack = <<>> /\ kind = "sync"
    /\ Invoke("dispose", FALSE)
    /\ entry' = "dispose"
    /\ UNCHANGED <<kind, supplied, disposeState, teardown, awaiting, count, order,
                   finished, first, raised, signal, checked>>

CallDispose == CallerDisposes /\ UNCHANGED <<bulk, sched, legacy>>

CallDisposeAsync ==
    /\ stack = <<>> /\ kind = "async"
    /\ Invoke("disposeAsync", FALSE)
    /\ entry' = "disposeAsync"
    /\ UNCHANGED <<kind, supplied, disposeState, teardown, awaiting, count, order,
                   finished, first, raised, signal, bulk, checked, sched, legacy>>

\* A subclass method (the test harness' callStartDispose) calls _startDispose().
CallStartDispose ==
    /\ stack = <<>>
    /\ Invoke("_startDispose", FALSE)
    /\ entry' = "_startDispose"
    /\ UNCHANGED <<kind, supplied, disposeState, teardown, awaiting, count, order,
                   finished, first, raised, signal, bulk, checked, sched, legacy>>

CallFinishDispose ==
    /\ stack = <<>>
    /\ Invoke("_finishDispose", FALSE)
    /\ entry' = "_finishDispose"
    /\ UNCHANGED <<kind, supplied, disposeState, teardown, awaiting, count, order,
                   finished, first, raised, signal, bulk, checked, sched, legacy>>

CallAssertIsAlive ==
    /\ stack = <<>>
    /\ \E strict \in BOOLEAN : Invoke("assertIsAlive", strict)
    /\ entry' = "assertIsAlive"
    /\ UNCHANGED <<kind, supplied, disposeState, teardown, awaiting, count, order,
                   finished, first, raised, signal, bulk, checked, sched, legacy>>

\* A caller, or user code of the instance, checks the instance with
\* ObjectDisposedException.throwIfDisposed(this, objectName, message).
CallThrowIfDisposed ==
    /\ stack = <<>> \/ (stack # <<>> /\ Top.fn \in Hooks /\ exc = NoExc)
    /\ calls < MaxCalls
    /\ calls' = calls + 1
    /\ entry' = IF stack = <<>> THEN "throwIfDisposed" ELSE entry
    /\ \E objectName \in ObjectNames, message \in Messages :
        LET e == ThrowIfDisposed(disposeState, objectName, message)
        IN  /\ checked' = [objectName |-> objectName, message |-> message,
                           call |-> calls + 1]
            /\ ret' = IF e = NoSignal THEN "true" ELSE "void"
            /\ exc' = IF e = NoSignal THEN NoExc ELSE e.name
            /\ signal' = IF e = NoSignal THEN signal ELSE e
    /\ UNCHANGED <<kind, supplied, disposeState, stack, teardown, awaiting, promises,
                   count, order, direct, finished, first, raised, bulk, sched, legacy>>

----------------------------------------------------------------------------
\* DisposableStateBase

\* assertIsAlive(strict)
AssertIsAlive ==
    /\ Running("assertIsAlive", "start")
    /\ LET e == AssertIsAliveRaises(disposeState, Top.strict)
       IN  /\ Leave(IF e = NoExc THEN "true" ELSE "void", e)
           /\ signal' = IF e = NoExc THEN signal
                         ELSE ObjectDisposedException(ConstructorName(kind), Undefined)
    /\ UNCHANGED <<kind, supplied, disposeState, entry, teardown, awaiting, promises,
                   calls, count, order, direct, finished, first, raised, bulk, checked, sched, legacy>>

\* The running _startDispose() is that of a dispose() or disposeAsync() that
\* user code of the instance has called.
Reentrant ==
    /\ Len(stack) >= 3
    /\ stack[1].fn = "_startDispose"
    /\ stack[2].fn \in {"dispose", "disposeAsync"} /\ stack[2].pc = "afterStart"
    /\ stack[3].fn \in Hooks

\* _startDispose(): the guard, the write of DisposeCalled, the call of
\* _onBeforeDispose()
StartDisposeEnter ==
    /\ Running("_startDispose", "start")
    /\ IF StartDisposeRejects(disposeState)
       THEN /\ Leave("false", NoExc)
            /\ count' = [count EXCEPT !.rejected = @ + 1,
                                      !.reentrant = IF Reentrant THEN @ + 1 ELSE @]
            /\ UNCHANGED <<disposeState, order>>
       ELSE LET w == SetState(disposeState, DISPOSE_CALLED)
            IN  /\ disposeState' = w.rec
                /\ IF w.err # NoExc
                   THEN /\ Leave("void", w.err)
                        /\ UNCHANGED <<count, order>>
                   ELSE /\ Start("_onBeforeDispose", "finally")
                        /\ count' = [count EXCEPT !.before = @ + 1]
    /\ UNCHANGED <<kind, supplied, entry, teardown, awaiting, promises, calls, direct,
                   finished, first, raised, signal, bulk, checked, sched, legacy>>

\* _startDispose(): the finally block, then return true or let the
\* condition of _onBeforeDispose() go on
StartDisposeLeave ==
    /\ Running("_startDispose", "finally")
    /\ LET w == StartDisposeFinally(disposeState)
       IN  /\ disposeState' = w.rec
           /\ IF w.err # NoExc THEN Leave("void", w.err)
              ELSE IF exc # NoExc THEN Leave("void", exc)
              ELSE Leave("true", NoExc)
           /\ count' = IF w.err = NoExc /\ exc = NoExc
                       THEN [count EXCEPT !.granted = @ + 1]
                       ELSE count
    /\ UNCHANGED <<kind, supplied, entry, teardown, awaiting, promises, calls, order,
                   direct, finished, first, raised, signal, bulk, checked, sched, legacy>>

\* _finishDispose(): the record is updated, then the finalizer is called
FinishDisposeEnter ==
    /\ Running("_finishDispose", "start")
    /\ LET r == FinishDisposeRecord(disposeState)
       IN  /\ disposeState' = r.rec
           /\ IF r.err # NoExc
              THEN /\ Leave("void", r.err)
                   /\ UNCHANGED <<count, order>>
              ELSE IF r.finalizer
              THEN /\ Start("finalizer", "afterFinalizer")
                   /\ count' = [count EXCEPT !.finalizer = @ + 1]
              ELSE /\ Leave("void", NoExc)
                   /\ UNCHANGED <<count, order>>
    /\ UNCHANGED <<kind, supplied, entry, teardown, awaiting, promises, calls, direct,
                   finished, first, raised, signal, bulk, checked, sched, legacy>>

\* _finishDispose(): the finalizer returned or raised
FinishDisposeLeave ==
    /\ Running("_finishDispose", "afterFinalizer")
    /\ Leave("void", exc)
    /\ UNCHANGED <<kind, supplied, disposeState, entry, teardown, awaiting, promises,
                   calls, count, order, direct, finished, first, raised, signal, bulk, checked, sched, legacy>>

----------------------------------------------------------------------------
\* DisposableBase.dispose()

\* if (!this._startDispose()) return;  try { this._onDispose(); }
\* The call of _startDispose() is outside the try: what it raises leaves
\* dispose() at once.
DisposeAfterStart ==
    /\ Running("dispose", "afterStart")
    /\ IF exc # NoExc
       THEN Leave("void", exc) /\ Completes /\ UNCHANGED <<count, order>>
       ELSE IF ret = "false"
       THEN Leave("void", NoExc) /\ Completes /\ UNCHANGED <<count, order>>
       ELSE /\ Start("_onDispose", "finally")
            /\ count' = [count EXCEPT !.teardown = @ + 1]
            /\ UNCHANGED <<finished, first>>
    /\ UNCHANGED <<kind, supplied, disposeState, entry, teardown, awaiting, promises,
                   calls, direct, raised, signal, bulk, checked, sched, legacy>>

\* A dispose() written without finally: _finishDispose() only after a normal
\* return of _onDispose().
DisposeFinally_OnlyOnSuccess ==
    /\ Running("dispose", "finally")
    /\ IF exc # NoExc
       THEN Leave("void", exc) /\ Completes
       ELSE /\ stack' = <<Frame("_finishDispose", "start"),
                          [Top EXCEPT !.pc = "afterFinish", !.pend = exc]>> \o Tail(stack)
            /\ ret' = "void"
            /\ exc' = NoExc
            /\ UNCHANGED <<finished, first>>
    /\ UNCHANGED <<kind, supplied, disposeState, entry, teardown, awaiting, promises,
                   calls, count, order, direct, raised, signal, bulk, checked, sched, legacy>>

\* finally { this._finishDispose(); }  entered after _onDispose() returned or
\* raised; the raised condition is kept pending.
DisposeFinally ==
    /\ Running("dispose", "finally")
    /\ stack' = <<Frame("_finishDispose", "start"),
                  [Top EXCEPT !.pc = "afterFinish", !.pend = exc]>> \o Tail(stack)
    /\ ret' = "void"
    /\ exc' = NoExc
    /\ UNCHANGED <<kind, supplied, disposeState, entry, teardown, awaiting, promises,
                   calls, count, order, direct, finished, first, raised, signal, bulk, checked, sched, legacy>>

\* The end of the finally block: a condition raised inside it replaces the
\* pending one, otherwise the pending one goes on.
DisposeLeave ==
    /\ Running("dispose", "afterFinish")
    /\ Leave("void", IF exc # NoExc THEN exc ELSE Top.pend)
    /\ Completes
    /\ UNCHANGED <<kind, supplied, disposeState, entry, teardown, awaiting, promises,
                   calls, count, order, direct, raised, signal, bulk, checked, sched, legacy>>

----------------------------------------------------------------------------
\* AsyncDisposableBase.disposeAsync()

\* if (!this._startDispose()) return;  try { await this._onDisposeAsync(); }
\* An async function never raises to its caller: the caller holds a promise.
DisposeAsyncAfterStart ==
    /\ Running("disposeAsync", "afterStart")
    /\ IF exc # NoExc
       THEN Leave("promise", NoExc) /\ Settle(Top.id, exc) /\ UNCHANGED <<count, order>>
       ELSE IF ret = "false"
       THEN Leave("promise", NoExc) /\ Settle(Top.id, NoExc) /\ UNCHANGED <<count, order>>
       ELSE /\ Start("_onDisposeAsync", "await")
            /\ count' = [count EXCEPT !.teardown = @ + 1]
            /\ promises' = [promises EXCEPT ![Top.id].ran = TRUE]
    /\ UNCHANGED <<kind, supplied, disposeState, entry, teardown, awaiting, calls,
                   direct, finished, first, raised, signal, bulk, checked, sched, legacy>>

\* await: _onDisposeAsync() returned its promise, the call is suspended and
\* the caller receives the pending promise of disposeAsync().
DisposeAsyncAwait ==
    /\ Running("disposeAsync", "await")
    /\ exc = NoExc
    /\ awaiting' = awaiting \cup {Top.id}
    /\ Leave("promise", NoExc)
    /\ UNCHANGED <<kind, supplied, disposeState, entry, teardown, promises, calls,
                   count, order, direct, finished, first, raised, signal, bulk, checked, sched, legacy>>

\* A disposeAsync() written without finally.
DisposeAsyncFinally_OnlyOnSuccess ==
    /\ \/ Running("disposeAsync", "finally")
       \/ Running("disposeAsync", "await") /\ exc # NoExc
    /\ IF exc # NoExc
       THEN Leave("promise", NoExc) /\ Settle(Top.id, exc)
       ELSE /\ stack' = <<Frame("_finishDispose", "start"),
                          [Top EXCEPT !.pc = "afterFinish", !.pend = exc]>> \o Tail(stack)
            /\ ret' = "void"
            /\ exc' = NoExc
            /\ UNCHANGED promises
    /\ UNCHANGED <<kind, supplied, disposeState, entry, teardown, awaiting, calls,
                   count, order, direct, finished, first, raised, signal, bulk, checked, sched, legacy>>

\* finally { this._finishDispose(); }  entered when the call resumes after
\* the awaited promise settled, or at once when _onDisposeAsync() raised
\* instead of returning a promise.
DisposeAsyncFinally ==
    /\ \/ Running("disposeAsync", "finally")
       \/ Running("disposeAsync", "await") /\ exc # NoExc
    /\ stack' = <<Frame("_finishDispose", "start"),
                  [Top EXCEPT !.pc = "afterFinish", !.pend = exc]>> \o Tail(stack)
    /\ ret' = "void"
    /\ exc' = NoExc
    /\ UNCHANGED <<kind, supplied, disposeState, entry, teardown, awaiting, promises,
                   calls, count, order, direct, finished, first, raised, signal, bulk, checked, sched, legacy>>

\* The end of the finally block settles the promise of this call.
DisposeAsyncLeave ==
    /\ Running("disposeAsync", "afterFinish")
    /\ Settle(Top.id, IF exc # NoExc THEN exc ELSE Top.pend)
    /\ Leave("promise", NoExc)
    /\ UNCHANGED <<kind, supplied, disposeState, entry, teardown, awaiting, calls,
                   count, order, direct, finished, first, raised, signal, bulk, checked, sched, legacy>>

\* _onDisposeAsync() is pending on something outside (a timer, I/O): it
\* settles between segments, or never.
TeardownSettles ==
    /\ stack = <<>>
    /\ teardown = "pending"
    /\ teardown' \in {"resolved", "rejected"}
    /\ UNCHANGED <<kind, supplied, disposeState, stack, ret, exc, entry, awaiting,
                   promises, calls, count, order, direct, finished, first,
                   raised, signal, bulk, checked, sched, legacy>>

\* A continuation that does not wait for the promise.
Resume_WithoutSettling ==
    /\ stack = <<>>
    /\ \E id \in awaiting :
        /\ awaiting' = awaiting \ {id}
        /\ stack' = <<[Frame("disposeAsync", "finally") EXCEPT !.id = id]>>
    /\ exc' = IF teardown = "rejected" THEN OwnError("_onDisposeAsync") ELSE NoExc
    /\ ret' = "void"
    /\ entry' = "resume"
    /\ UNCHANGED <<kind, supplied, disposeState, teardown, promises, calls, count,
                   order, direct, finished, first, raised, signal, bulk, checked, sched, legacy>>

\* The continuation of a suspended disposeAsync() runs, after the awaited
\* promise settled.
Resume ==
    /\ stack = <<>>
    /\ teardown \in {"resolved", "rejected"}
    /\ \E id \in awaiting :
        /\ awaiting' = awaiting \ {id}
        /\ stack' = <<[Frame("disposeAsync", "finally") EXCEPT !.id = id]>>
    /\ exc' = IF teardown = "rejected" THEN OwnError("_onDisposeAsync") ELSE NoExc
    /\ ret' = "void"
    /\ entry' = "resume"
    /\ UNCHANGED <<kind, supplied, disposeState, teardown, promises, calls, count,
                   order, direct, finished, first, raised, signal, bulk, checked, sched, legacy>>

----------------------------------------------------------------------------
\* User code: the overrides of _onBeforeDispose, _onDispose, _onDisposeAsync
\* and the finalizer

InUserCode == stack # <<>> /\ Top.fn \in Hooks

\* It returns.  _onDisposeAsync returns a promise: pending, already resolved
\* (the default, Promise.resolve()), or already rejected (an async override
\* that raised).
UserReturns ==
    /\ InUserCode
    /\ exc = NoExc
    /\ IF Top.fn = "_onDisposeAsync"
       THEN /\ teardown' \in {"pending", "resolved", "rejected"}
            /\ Leave("promise", NoExc)
       ELSE /\ Leave("void", NoExc)
            /\ UNCHANGED teardown
    /\ UNCHANGED <<kind, supplied, disposeState, entry, awaiting, promises, calls,
                   count, order, direct, finished, first, raised, signal, checked>>

HookReturns == UserReturns /\ UNCHANGED <<bulk, sched, legacy>>

\* It raises a condition of its own.
UserRaises ==
    /\ InUserCode
    /\ exc = NoExc
    /\ Leave("void", OwnError(Top.fn))
    /\ raised' = raised \cup {<<Top.fn, OwnError(Top.fn)>>}
    /\ UNCHANGED <<kind, supplied, disposeState, entry, teardown, awaiting, promises,
                   calls, count, order, direct, finished, first, signal, checked>>

HookRaises == UserRaises /\ UNCHANGED <<bulk, sched, legacy>>

\* It calls back into the object.
UserCalls(m, strict) ==
    /\ InUserCode
    /\ exc = NoExc
    /\ m \in Methods
    /\ (m # "assertIsAlive" => ~strict)
    /\ Invoke(m, strict)
    /\ UNCHANGED <<kind, supplied, disposeState, entry, teardown, awaiting, count,
                   order, finished, first, raised, signal, checked>>

HookCalls ==
    /\ \E m \in Methods, strict \in BOOLEAN : UserCalls(m, strict)
    /\ UNCHANGED <<bulk, sched, legacy>>

\* A call it made raised: it catches the condition ...
UserCatches ==
    /\ InUserCode
    /\ exc # NoExc
    /\ exc' = NoExc
    /\ UNCHANGED <<kind, supplied, disposeState, stack, ret, entry, teardown, awaiting,
                   promises, calls, count, order, direct, finished, first,
                   raised, signal, checked>>

HookCatches == UserCatches /\ UNCHANGED <<bulk, sched, legacy>>

\* ... or lets it go on.
UserPropagates ==
    /\ InUserCode
    /\ exc # NoExc
    /\ Leave("void", exc)
    /\ raised' = raised \cup {<<Top.fn, exc>>}
    /\ UNCHANGED <<kind, supplied, disposeState, entry, teardown, awaiting, promises,
                   calls, count, order, direct, finished, first, signal, checked>>

HookPropagates == UserPropagates /\ UNCHANGED <<bulk, sched, legacy>>

----------------------------------------------------------------------------
Next ==
    \/ CallDispose
    \/ CallDisposeAsync
    \/ CallStartDispose
    \/ CallFinishDispose
    \/ CallAssertIsAlive
    \/ CallThrowIfDisposed
    \/ AssertIsAlive
    \/ StartDisposeEnter
    \/ StartDisposeLeave
    \/ FinishDisposeEnter
    \/ FinishDisposeLeave
    \/ DisposeAfterStart
    \/ DisposeFinally
    \/ DisposeLeave
    \/ DisposeAsyncAfterStart
    \/ DisposeAsyncAwait
    \/ DisposeAsyncFinally
    \/ DisposeAsyncLeave
    \/ TeardownSettles
    \/ Resume
    \/ HookReturns
    \/ HookRaises
    \/ HookCalls
    \/ HookCatches
    \/ HookPropagates

Spec == Init /\ [][Next]_vars

\* The code of the library: once called it runs statement after statement.
Library ==
    \/ AssertIsAlive
    \/ StartDisposeEnter
    \/ StartDisposeLeave
    \/ FinishDisposeEnter
    \/ FinishDisposeLeave
    \/ DisposeAfterStart
    \/ DisposeFinally
    \/ DisposeLeave
    \/ DisposeAsyncAfterStart
    \/ DisposeAsyncAwait
    \/ DisposeAsyncFinally
    \/ DisposeAsyncLeave

\* User code leaves: it returns or raises.
HookExits == HookReturns \/ HookRaises \/ HookPropagates

\* The instance in a run where every call runs to completion (the library's
\* statements are executed, user code does not loop for ever) and the job
\* queue runs the continuation of an await whose promise has settled.
\* Callers are free to call or not, and a pending promise of
\* _onDisposeAsync() is free never to settle.
FairSpec ==
    /\ Spec
    /\ WF_vars(Library)
    /\ WF_vars(HookExits)
    /\ WF_vars(Resume)

----------------------------------------------------------------------------
\* Code outside the class writes a field of the record directly, as the test
\* harness' setStateForTesting does: (this as any).__disposeState.state = s,
\* or the same for the finalizer property.  The writer receives TypeError
\* when the record is frozen.
DirectFieldWrite ==
    /\ stack = <<>>
    /\ calls < MaxCalls
    /\ calls' = calls + 1
    /\ \E w \in {SetState(disposeState, s) : s \in {ALIVE, DISPOSE_CALLED, DISPOSING, DISPOSED}}
               \cup {SetFinalizer(disposeState, TRUE)} :
        /\ disposeState' = w.rec
        /\ exc' = w.err
    /\ ret' = "void"
    /\ entry' = "write"
    /\ direct' = TRUE
    /\ UNCHANGED <<kind, supplied, stack, teardown, awaiting, promises, count, order,
                   finished, first, raised, signal, bulk, checked, sched, legacy>>

NextWithWrites == Next \/ DirectFieldWrite

\* The instance in a program that also writes the fields directly.
SpecWithWrites == Init /\ [][NextWithWrites]_vars

----------------------------------------------------------------------------
\* dispose.ts: the utilities.  A caller holds an array of items and calls one
\* utility on it; each call of singleUnsafe made by the loop of theseUnsafe
\* is a step.

\* The array the caller holds.
Given == [ref |-> bulk.given, elems |-> bulk.items]

\* The call of a utility: the entries of that moment are noted.
Called(utility, disposables, trapExceptions) ==
    [bulk EXCEPT !.utility = utility, !.trap = trapExceptions,
                 !.work = disposables.elems, !.passed = disposables.elems,
                 !.aliased = (disposables.ref = "caller")]

\* The call enters theseUnsafe(disposables, trapExceptions):
\* if (!disposables) return; then the loop.
EnterTheseUnsafe(utility, disposables, trapExceptions) ==
    bulk' = IF Falsy(disposables)
            THEN [Called(utility, disposables, trapExceptions) EXCEPT
                      !.pc = "done", !.outcome = Returned("void")]
            ELSE [Called(utility, disposables, trapExceptions) EXCEPT
                      !.pc = "loop", !.index = 1]

\* The call is over: it returned or raised.
Done(utility, outcome) ==
    [bulk EXCEPT !.utility = utility, !.pc = "done", !.outcome = outcome]

\* What one call of singleUnsafe leaves behind; items is the caller's array
\* after it, which is the array iterated when that one is the caller's own.
After(b, item, r, items) ==
    [b EXCEPT !.attempts = IF r.called THEN Append(@, item.id) ELSE @,
              !.log = @ \o r.logged,
              !.items = items,
              !.work = IF b.aliased THEN items ELSE @]

\* The caller's array after singleUnsafe did r on item.
Effects(item, r) == IF r.called THEN Mutations(bulk.items, item) ELSE {bulk.items}

\* dispose(...disposables): theseUnsafe(disposables, false) on the array of
\* the arguments
Dispose ==
    /\ bulk.pc = "idle" /\ bulk.given = "caller"
    /\ EnterTheseUnsafe("dispose", TheArguments(bulk.items), FALSE)
    /\ UNCHANGED <<instance, sched, legacy>>

\* dispose.withoutException(...disposables): theseUnsafe(disposables, true)
DisposeWithoutException ==
    /\ bulk.pc = "idle" /\ bulk.given = "caller"
    /\ EnterTheseUnsafe("withoutException", TheArguments(bulk.items), TRUE)
    /\ UNCHANGED <<instance, sched, legacy>>

\* dispose.these(disposables, trapExceptions): nothing for an empty array,
\* else theseUnsafe on disposables.slice(), an array of the same entries.
\* trapExceptions left out or false is FALSE here.
DisposeThese ==
    /\ bulk.pc = "idle"
    /\ \E trapExceptions \in BOOLEAN :
        IF Falsy(Given) \/ Len(Given.elems) = 0
        THEN bulk' = [Called("these", Given, trapExceptions) EXCEPT
                          !.pc = "done", !.outcome = Returned("void"), !.aliased = FALSE]
        ELSE EnterTheseUnsafe("these", Slice(Given), trapExceptions)
    /\ UNCHANGED <<instance, sched, legacy>>

\* dispose.these.unsafe(disposables, trapExceptions): theseUnsafe on the
\* caller's array itself
DisposeTheseUnsafe ==
    /\ bulk.pc = "idle"
    /\ \E trapExceptions \in BOOLEAN :
        EnterTheseUnsafe("these.unsafe", Given, trapExceptions)
    /\ UNCHANGED <<instance, sched, legacy>>

\* dispose.single(disposable, trapException):
\* if (disposable) singleUnsafe(disposable, trapException)
DisposeSingle ==
    /\ bulk.pc = "idle"
    /\ \E i \in 1..Len(bulk.items), trapException \in BOOLEAN :
        LET disposable == bulk.items[i]
            r == IF Truthy(disposable)
                 THEN SingleUnsafe(disposable, trapException, bulk.console)
                 ELSE Nothing
            outcome == IF r.raised # NoError THEN Raised(r.raised) ELSE Returned("void")
        IN  \E items \in Effects(disposable, r) :
                bulk' = [After(Done("single", outcome), disposable, r, items) EXCEPT
                            !.trap = trapException, !.work = <<disposable>>,
                            !.passed = <<disposable>>]
    /\ UNCHANGED <<instance, sched, legacy>>

\* A loop that goes on with the next entry after a dispose() raised and
\* raises the condition kept last at its end.
TheseUnsafe_GoesOn ==
    /\ bulk.pc = "loop"
    /\ IF bulk.index > Len(bulk.work)
       THEN bulk' = Done(bulk.utility, IF bulk.outcome.cond # NoError
                                       THEN Raised(bulk.outcome.cond)
                                       ELSE Returned("void"))
       ELSE LET d == bulk.work[bulk.index]
                r == SingleUnsafe(d, bulk.trap, bulk.console)
            IN  \E items \in Effects(d, r) :
                    bulk' = After([bulk EXCEPT !.index = @ + 1,
                                               !.outcome.cond = IF r.raised # NoError
                                                                THEN r.raised ELSE @],
                                  d, r, items)
    /\ UNCHANGED <<instance, sched, legacy>>

\* theseUnsafe: for (const d of disposables) singleUnsafe(d, trapExceptions);
\* one turn of the loop, or its end.  What singleUnsafe raises leaves the
\* loop and the utility.
TheseUnsafe ==
    /\ bulk.pc = "loop"
    /\ IF bulk.index > Len(bulk.work)
       THEN bulk' = Done(bulk.utility, Returned("void"))
       ELSE LET d == bulk.work[bulk.index]
                r == SingleUnsafe(d, bulk.trap, bulk.console)
            IN  \E items \in Effects(d, r) :
                    bulk' = IF r.raised # NoError
                            THEN After(Done(bulk.utility, Raised(r.raised)), d, r, items)
                            ELSE After([bulk EXCEPT !.index = @ + 1], d, r, items)
    /\ UNCHANGED <<instance, sched, legacy>>

\* A deferredUnsafe without the guard: it sets the timer whatever it is given.
DeferredUnsafe_AlwaysSchedules(utility, disposables, delay) ==
    bulk' = [Called(utility, disposables, TRUE) EXCEPT
                 !.delay = delay, !.calledAt = bulk.now,
                 !.outcome = Returned("void"), !.pc = "scheduled",
                 !.timer = [state |-> "pending", due |-> bulk.now + Timeout(delay),
                            firedAt |-> 0]]

\* A deferredUnsafe that hands the callback no trapping flag.
DeferredUnsafe_NoTrap(utility, disposables, delay) ==
    LET called == [Called(utility, disposables, FALSE) EXCEPT
                       !.delay = delay, !.calledAt = bulk.now,
                       !.outcome = Returned("void")]
    IN  bulk' = IF Falsy(disposables) \/ Len(disposables.elems) = 0
                THEN [called EXCEPT !.pc = "done"]
                ELSE [called EXCEPT !.pc = "scheduled",
                                    !.timer = [state |-> "pending",
                                               due |-> bulk.now + Timeout(delay),
                                               firedAt |-> 0]]

\* deferredUnsafe(disposables, delay): nothing for no array or an empty one, else
\* setTimeout(theseUnsafe, timeout, disposables, true).  The call returns at
\* once; the timer is pending.
DeferredUnsafe(utility, disposables, delay) ==
    LET called == [Called(utility, disposables, TRUE) EXCEPT
                       !.delay = delay, !.calledAt = bulk.now,
                       !.outcome = Returned("void")]
    IN  bulk' = IF Falsy(disposables) \/ Len(disposables.elems) = 0
                THEN [called EXCEPT !.pc = "done"]
                ELSE [called EXCEPT !.pc = "scheduled",
                                    !.timer = [state |-> "pending",
                                               due |-> bulk.now + Timeout(delay),
                                               firedAt |-> 0]]

\* dispose.deferred(...disposables): these.deferred.unsafe(disposables), the
\* delay left out
DisposeDeferred ==
    /\ bulk.pc = "idle" /\ bulk.given = "caller"
    /\ DeferredUnsafe("deferred", TheArguments(bulk.items), 0)
    /\ UNCHANGED <<instance, sched, legacy>>

\* dispose.these.deferred(disposables, delay): deferredUnsafe on
\* disposables.slice(), or on null for an empty array
DisposeTheseDeferred ==
    /\ bulk.pc = "idle"
    /\ \E delay \in Delays :
        DeferredUnsafe("these.deferred",
                       IF ~Falsy(Given) /\ Len(Given.elems) # 0 THEN Slice(Given) ELSE Null,
                       delay)
    /\ UNCHANGED <<instance, sched, legacy>>

\* dispose.these.deferred.unsafe(disposables, delay)
DisposeTheseDeferredUnsafe ==
    /\ bulk.pc = "idle"
    /\ \E delay \in Delays : DeferredUnsafe("these.deferred.unsafe", Given, delay)
    /\ UNCHANGED <<instance, sched, legacy>>

\* Time passes while the timer is pending (the clock starts at the call).
Tick ==
    /\ bulk.pc = "scheduled"
    /\ bulk.now < MaxTime
    /\ bulk' = [bulk EXCEPT !.now = @ + 1]
    /\ UNCHANGED <<instance, sched, legacy>>

\* The timer fires, in a task of its own after the call returned and not
\* before it is due: theseUnsafe(disposables, true) begins.
TimerFires ==
    /\ bulk.pc = "scheduled"
    /\ bulk.timer.state = "pending"
    /\ bulk.now >= bulk.timer.due
    /\ bulk' = [bulk EXCEPT !.pc = "loop", !.index = 1, !.outcome = NoOutcome,
                            !.timer.state = "fired", !.timer.firedAt = bulk.now]
    /\ UNCHANGED <<instance, sched, legacy>>

\* using(disposable, closure): try { return closure(disposable); }
\* disposable is a Disposable, an object with a dispose function.
Using ==
    /\ bulk.pc = "idle"
    /\ \E i \in 1..Len(bulk.items) :
        /\ bulk.items[i].kind \in {"ok", "faulty", "mutator"}
        /\ bulk' = [bulk EXCEPT !.utility = "using", !.pc = "closure",
                                !.work = <<bulk.items[i]>>,
                                !.passed = <<bulk.items[i]>>]
    /\ UNCHANGED <<instance, sched, legacy>>

\* The closure returns a value or raises.
UsingClosure ==
    /\ bulk.pc = "closure"
    /\ \E closure \in {"returned", "raised"} :
        bulk' = [bulk EXCEPT !.pc = "finally", !.closure = closure]
    /\ UNCHANGED <<instance, sched, legacy>>

\* A using() that disposes only after the closure returned.
UsingFinally_OnlyOnSuccess ==
    /\ bulk.pc = "finally"
    /\ LET d == bulk.work[1]
           r == IF bulk.closure = "raised" THEN Nothing
                ELSE SingleUnsafe(d, FALSE, bulk.console)
           outcome == IF r.raised # NoError THEN Raised(r.raised)
                      ELSE IF bulk.closure = "raised" THEN Raised(ClosureError)
                      ELSE Returned("result")
       IN  \E items \in Effects(d, r) :
               bulk' = After(Done("using", outcome), d, r, items)
    /\ UNCHANGED <<instance, sched, legacy>>

\* finally { singleUnsafe(disposable, false); }  What singleUnsafe raises
\* replaces the pending return value or condition of the closure.
UsingFinally ==
    /\ bulk.pc = "finally"
    /\ LET d == bulk.work[1]
           r == SingleUnsafe(d, FALSE, bulk.console)
           outcome == IF r.raised # NoError THEN Raised(r.raised)
                      ELSE IF bulk.closure = "raised" THEN Raised(ClosureError)
                      ELSE Returned("result")
       IN  \E items \in Effects(d, r) :
               bulk' = After(Done("using", outcome), d, r, items)
    /\ UNCHANGED <<instance, sched, legacy>>

----------------------------------------------------------------------------
\* Several deferred disposals.  One caller holds an array, calls
\* dispose.these.deferred or dispose.these.deferred.unsafe on it more than
\* once and changes the array in between; the host runs the timers.

\* The arrays of this caller: disposable objects.
ScheduledArrays ==
    {a \in Arrays : \A i \in 1..Len(a) : a[i].kind = "ok"}

\* The delays it passes: none, and a positive one.
ScheduledDelays == {0, MaxDelay}

\* The caller's array as it is now.
Callers == [ref |-> "caller", elems |-> sched.items]

\* What the caller may do to its array: reverse it, remove its first entry,
\* add an object.
CallerChanges(array) ==
    ({Reverse(array)}
        \cup (IF Len(array) > 0 THEN {Tail(array)} ELSE {})
        \cup {Append(array, [id |-> MaxItems + sched.changes + 1, kind |-> "ok"])})
    \ {array}

\* deferredUnsafe(disposables, delay) called at time now as call number seq:
\* the timer it sets, none for no array or an empty one.  The timer holds the
\* array it was given; passed are the entries of that moment and seen will
\* be those of the caller's array when the timer fires.
SetTimeout_AtOnce(utility, disposables, delay, now, seq) ==
    [utility |-> utility, seq |-> seq, delay |-> delay, timeout |-> 0,
     calledAt |-> now, due |-> now, firedAt |-> 0,
     ref |-> disposables.ref, passed |-> disposables.elems, seen |-> <<>>,
     state |-> IF Falsy(disposables) \/ Len(disposables.elems) = 0
               THEN "none" ELSE "pending"]

SetTimeout(utility, disposables, delay, now, seq) ==
    [utility |-> utility, seq |-> seq, delay |-> delay, timeout |-> Timeout(delay),
     calledAt |-> now, due |-> now + Timeout(delay), firedAt |-> 0,
     ref |-> disposables.ref, passed |-> disposables.elems, seen |-> <<>>,
     state |-> IF Falsy(disposables) \/ Len(disposables.elems) = 0
               THEN "none" ELSE "pending"]

\* The array a timer's callback iterates: the one it was given, which for
\* the unsafe form is the caller's, as it is now.
WorkOf(t) == IF t.ref = "caller" THEN sched.items ELSE t.passed

\* The host runs a timer's callback once its timeout has elapsed, and not
\* before the callbacks of the timers set earlier with a timeout that is
\* not longer.
MayFire_AnyDue(t) ==
    /\ sched.timers[t].state = "pending"
    /\ sched.now >= sched.timers[t].due

MayFire(t) ==
    /\ sched.timers[t].state = "pending"
    /\ sched.now >= sched.timers[t].due
    /\ \A u \in 1..(t - 1) :
            (sched.timers[u].state = "pending"
                /\ sched.timers[u].timeout <= sched.timers[t].timeout) => FALSE

\* dispose.these.deferred(items, delay)
ScheduleTheseDeferred ==
    /\ Len(sched.timers) < MaxBatches
    /\ \E delay \in ScheduledDelays :
        sched' = [sched EXCEPT !.timers = Append(@,
                    SetTimeout("these.deferred",
                               IF Len(sched.items) # 0 THEN Slice(Callers) ELSE Null,
                               delay, sched.now, Len(sched.timers) + 1))]
    /\ UNCHANGED <<instance, bulk, legacy>>

\* dispose.these.deferred.unsafe(items, delay)
ScheduleTheseDeferredUnsafe ==
    /\ Len(sched.timers) < MaxBatches
    /\ \E delay \in ScheduledDelays :
        sched' = [sched EXCEPT !.timers = Append(@,
                    SetTimeout("these.deferred.unsafe", Callers, delay, sched.now,
                               Len(sched.timers) + 1))]
    /\ UNCHANGED <<instance, bulk, legacy>>

\* Some timer is pending.
TimerPending == \E t \in 1..Len(sched.timers) : sched.timers[t].state = "pending"

\* The caller changes its array while a timer is pending.
CallerChangesArray ==
    /\ TimerPending
    /\ sched.changes < MaxChanges
    /\ \E items \in CallerChanges(sched.items) :
        sched' = [sched EXCEPT !.items = items, !.changes = @ + 1]
    /\ UNCHANGED <<instance, bulk, legacy>>

\* Time passes, as long as some timer is waiting for it.
TimePasses ==
    /\ \E t \in 1..Len(sched.timers) :
            sched.timers[t].state = "pending" /\ sched.timers[t].due > sched.now
    /\ sched.now < MaxTime
    /\ sched' = [sched EXCEPT !.now = @ + 1]
    /\ UNCHANGED <<instance, bulk, legacy>>

\* theseUnsafe(disposables, true) run by timer number batch: the dispose()
\* calls it makes, in the order of the loop.
IsAttempted(item) == SingleUnsafe(item, TRUE, TRUE).called
AttemptsOf(work, batch) ==
    LET attempted == SelectSeq(work, IsAttempted)
    IN  [i \in 1..Len(attempted) |-> [batch |-> batch, id |-> attempted[i].id]]

\* The host calls the callback of a timer, theseUnsafe(disposables, true),
\* which runs to its end.
CallbackRuns ==
    \E t \in 1..Len(sched.timers) :
        /\ MayFire(t)
        /\ LET work == WorkOf(sched.timers[t])
           IN  sched' = [sched EXCEPT !.timers[t].state = "fired",
                                      !.timers[t].firedAt = sched.now,
                                      !.timers[t].seen = sched.items,
                                      !.attempts = @ \o AttemptsOf(work, t)]
        /\ UNCHANGED <<instance, bulk, legacy>>

InitScheduling ==
    /\ NewInstance
    /\ kind = "sync" /\ ~supplied
    /\ bulk = Idle(<<>>, TRUE)
    /\ sched \in {[NoSchedule EXCEPT !.items = a] : a \in ScheduledArrays}
    /\ legacy = NewLegacy(supplied)

NextScheduling ==
    \/ ScheduleTheseDeferred
    \/ ScheduleTheseDeferredUnsafe
    \/ CallerChangesArray
    \/ TimePasses
    \/ CallbackRuns

SpecScheduling == InitScheduling /\ [][NextScheduling]_vars

----------------------------------------------------------------------------
InitUtilities ==
    /\ NewInstance
    /\ kind = "sync" /\ ~supplied
    /\ bulk \in {Idle(items, console) : items \in Arrays \cup AsyncArrays,
                                          console \in BOOLEAN}
              \cup {[Idle(<<>>, console) EXCEPT !.given = g] :
                        g \in {"null", "undefined"}, console \in BOOLEAN}
    /\ sched = NoSchedule
    /\ legacy = NewLegacy(supplied)

NextUtilities ==
    \/ Dispose
    \/ DisposeWithoutException
    \/ DisposeThese
    \/ DisposeTheseUnsafe
    \/ DisposeSingle
    \/ TheseUnsafe
    \/ DisposeDeferred
    \/ DisposeTheseDeferred
    \/ DisposeTheseDeferredUnsafe
    \/ Tick
    \/ TimerFires
    \/ Using
    \/ UsingClosure
    \/ UsingFinally

\* A caller with an array of items and one call of a utility.
SpecUtilities == InitUtilities /\ [][NextUtilities]_vars

----------------------------------------------------------------------------
\* Properties

HookCounts(c) == <<c.before, c.teardown, c.finalizer>>
OnStack(fn) == \E i \in 1..Len(stack) : stack[i].fn = fn
Conditions == {"BeforeError", "TeardownError", "FinalizerError", "TypeError",
               "ObjectDisposedException"}

\* A caller's dispose() has just returned or raised to the caller.
DisposeObserved == stack = <<>> /\ entry = "dispose"

\* C1: calling dispose() N >= 2 times leaves the same state and the same
\* counts of _onBeforeDispose, _onDispose and finalizer invocations as
\* calling it once, and the finalizer (when supplied) has run exactly once.
\* Stated for instances used through dispose() alone.
C1_DisposeIdempotentFinalizerOnce ==
    (kind = "sync" /\ ~direct /\ stack = <<>> /\ finished >= 1) =>
        /\ disposeState.state = first.state
        /\ HookCounts(count) = HookCounts(first.count)
        /\ (supplied => count.finalizer = 1)

\* C2: the disposal state never moves to an earlier member of
\* Alive < DisposeCalled < Disposing < Disposed, in any step of any call.
C2_StateNeverRegresses ==
    [][disposeState'.state >= disposeState.state]_vars

\* Reached Disposed although calls were rejected at the guard, user code
\* called the protected methods itself and a condition is in flight.
C2_Witness ==
    /\ disposeState.state = DISPOSED
    /\ count.rejected >= 1
    /\ direct
    /\ exc # NoExc

\* C3: when _onBeforeDispose raises during dispose() or disposeAsync(), the
\* caller sees the condition only after _finishDispose has run: the state is
\* Disposed and the finalizer has been invoked.
C3_BeforeErrorSeenAfterFinish ==
    /\ (DisposeObserved /\ exc = "BeforeError") =>
            /\ disposeState.state = DISPOSED
            /\ (supplied => count.finalizer = 1)
    /\ \A i \in 1..Len(promises) :
         (promises[i].status = "rejected" /\ promises[i].cond = "BeforeError") =>
            /\ promises[i].at = DISPOSED
            /\ (supplied => count.finalizer = 1)

TeardownFailed(c) ==
    \/ <<"_onDisposeAsync", c>> \in raised
    \/ teardown = "rejected" /\ c = OwnError("_onDisposeAsync")

C6_ResolvedMeansDisposed ==
    (~direct /\ raised = {}) =>
        \A i \in 1..Len(promises) :
            (promises[i].outer /\ promises[i].status = "resolved") =>
                promises[i].at = DISPOSED

\* C7: over all calls, interleaved at awaits and at hook calls, at most one
\* call passes the guard of _startDispose, _startDispose returns true at most
\* once, the teardown hook is started at most once, and a call that returns
\* false sees a state other than Alive.
C7_AtMostOneProceeds ==
    /\ count.before <= 1
    /\ count.granted <= 1
    /\ count.teardown <= 1
    /\ (ret = "false" => disposeState.state # ALIVE)

\* A call was granted and is suspended at its await; a later call was
\* rejected.
C7_Witness ==
    /\ count.granted = 1
    /\ awaiting # {}
    /\ count.rejected >= 1
    /\ ret = "false"

C9_FinalizerAtMostOnce ==
    /\ count.finalizer <= 1
    /\ (count.finalizer >= 1 => ~disposeState.finalizer)

\* The finalizer called _finishDispose() again, which raised.
C9_Witness ==
    /\ stack # <<>> /\ Top.fn = "finalizer"
    /\ exc = "TypeError"
    /\ count.finalizer = 1

\* The hooks in template order, for this instance.
TemplateOrder ==
    <<"_onBeforeDispose", IF kind = "sync" THEN "_onDispose" ELSE "_onDisposeAsync">>
        \o (IF supplied THEN <<"finalizer">> ELSE <<>>)

\* C10: once dispose() has been called (and has completed; for disposeAsync()
\* once its promise has settled), _onBeforeDispose, the teardown hook and
\* the finalizer have each been invoked exactly once, in that order, and no
\* hook begins while another is running.  Stated for instances used through
\* the templates alone.
C10_HooksOnceInOrder ==
    ~direct =>
        /\ Cardinality({i \in 1..Len(stack) : stack[i].fn \in Hooks}) <= 1
        /\ (stack = <<>> /\ finished >= 1) => order = TemplateOrder
        /\ (Len(promises) >= 1 /\ promises[1].status # "pending") => order = TemplateOrder

\* C11: in every reachable state the disposal state is one of the four
\* members, wasDisposed is true exactly when it is Disposing or Disposed and
\* false exactly when it is Alive or DisposeCalled.
C11_WasDisposedTable ==
    /\ disposeState.state \in {ALIVE, DISPOSE_CALLED, DISPOSING, DISPOSED}
    /\ WasDisposed(disposeState) <=> disposeState.state \in {DISPOSING, DISPOSED}
    /\ ~WasDisposed(disposeState) <=> disposeState.state \in {ALIVE, DISPOSE_CALLED}

\* _onBeforeDispose runs in state DisposeCalled, where wasDisposed is still
\* false: the non-strict assertIsAlive() it called returned true.
C11_Witness ==
    /\ stack # <<>> /\ Top.fn = "_onBeforeDispose"
    /\ disposeState.state = DISPOSE_CALLED
    /\ ~WasDisposed(disposeState)
    /\ ret = "true"

\* C12: assertIsAlive(strict), non-strict, returns true in Alive and
\* DisposeCalled and raises ObjectDisposedException in Disposing and Disposed;
\* strict, it returns true only in Alive and raises in the other three
\* states; the exception carries the name of the instance's runtime class as
\* objectName; the call never changes the disposal record.
C12_AssertIsAliveTable ==
    [][Running("assertIsAlive", "start") =>
        LET state == disposeState.state
            raises == IF Top.strict THEN state \in {DISPOSE_CALLED, DISPOSING, DISPOSED}
                      ELSE state \in {DISPOSING, DISPOSED}
        IN  /\ disposeState' = disposeState
            /\ IF raises
               THEN /\ exc' = "ObjectDisposedException"
                    /\ ret' # "true"
                    /\ signal'.name = "ObjectDisposedException"
                    /\ signal'.objectName = ConstructorName(kind)
               ELSE /\ exc' = NoExc
                    /\ ret' = "true"
                    /\ signal' = signal]_vars

\* _onBeforeDispose called assertIsAlive(true) in state DisposeCalled: it
\* raised, where the non-strict call would have returned true.
C12_Witness ==
    /\ stack # <<>> /\ Top.fn = "_onBeforeDispose"
    /\ disposeState.state = DISPOSE_CALLED
    /\ exc = "ObjectDisposedException"
    /\ signal.objectName = ConstructorName(kind)

\* C13: when _onBeforeDispose raises inside _startDispose() (called on an
\* Alive object, the only case in which the hook runs), the finally block
\* still advances DisposeCalled to Disposing, the state _startDispose()
\* leaves behind is never Alive or DisposeCalled (it is Disposed when the
\* hook itself ran _finishDispose), and the caller of _startDispose()
\* receives the raised condition and no return value.
C13_BeforeRaisesStillDisposing ==
    [][(Running("_startDispose", "finally") /\ exc # NoExc) =>
        /\ disposeState.state = DISPOSE_CALLED => disposeState'.state = DISPOSING
        /\ disposeState.state # DISPOSE_CALLED => disposeState' = disposeState
        /\ disposeState'.state \in {DISPOSING, DISPOSED}
        /\ exc' = exc
        /\ ret' # "true" /\ ret' # "false"
        /\ stack' = Tail(stack)]_vars

\* The caller of _startDispose() holds the condition of _onBeforeDispose and
\* the state is Disposing.
C13_Witness ==
    /\ stack = <<>> /\ entry = "_startDispose"
    /\ exc = "BeforeError"
    /\ <<"_onBeforeDispose", "BeforeError">> \in raised
    /\ disposeState.state = DISPOSING
    /\ count.granted = 0

\* C14: _startDispose() called in any state other than Alive returns false
\* and leaves the state, the stored finalizer and the hook invocation counts
\* unchanged (no hook is started); when _startDispose() returns true the
\* state is Disposing or later.
C14_StartDisposeRejectedFrame ==
    [][/\ (Running("_startDispose", "start") /\ disposeState.state # ALIVE) =>
            /\ ret' = "false"
            /\ exc' = NoExc
            /\ stack' = Tail(stack)
            /\ disposeState' = disposeState
            /\ HookCounts(count') = HookCounts(count)
            /\ order' = order
       /\ (Running("_startDispose", "finally") /\ ret' = "true") =>
            disposeState'.state \in {DISPOSING, DISPOSED}
       /\ (Running("_startDispose", "start") /\ disposeState.state = ALIVE) =>
            ret' # "false"]_vars

\* A caller's _startDispose() was refused in state Disposing, the finalizer
\* still stored.
C14_Witness ==
    /\ stack = <<>> /\ entry = "_startDispose"
    /\ ret = "false"
    /\ disposeState.state = DISPOSING
    /\ supplied /\ disposeState.finalizer
    /\ count.rejected >= 1

\* C15: Disposed is terminal and enforced by the record itself: when
\* _finishDispose has run the record is frozen, in state Disposed and
\* without finalizer, and from then on no step of dispose, disposeAsync,
\* _startDispose, _finishDispose or of a direct field write changes the
\* record: the state stays Disposed and no finalizer is added again.
C15_DisposedIsTerminal ==
    [][/\ Running("_finishDispose", "start") =>
            /\ disposeState'.frozen
            /\ disposeState'.state = DISPOSED
            /\ ~disposeState'.finalizer
       /\ disposeState.frozen => disposeState' = disposeState]_vars

\* A direct write on the frozen record was refused with TypeError.
C15_Witness ==
    /\ stack = <<>> /\ entry = "write"
    /\ exc = "TypeError"
    /\ disposeState = [state |-> DISPOSED, finalizer |-> FALSE, frozen |-> TRUE]
    /\ supplied /\ count.finalizer = 1

\* C16: once wasDisposed is true on an object it is true after every later
\* step of every operation of the object; it never goes back to false.
C16_WasDisposedStaysTrue ==
    [][WasDisposed(disposeState) => WasDisposed(disposeState')]_vars

\* During the teardown (state Disposing) a further _startDispose() was
\* refused and the assertIsAlive() made after it still raised.
C16_Witness ==
    /\ stack # <<>> /\ Top.fn \in {"_onDispose", "_onDisposeAsync"}
    /\ disposeState.state = DISPOSING
    /\ WasDisposed(disposeState)
    /\ count.rejected >= 1
    /\ exc = "ObjectDisposedException"

\* The entries of a collection that are non-null objects with a dispose
\* function, by id, in collection order.
IsDisposable(item) == item.kind \in {"ok", "faulty", "mutator"}
Ids(items) == [i \in 1..Len(items) |-> items[i].id]
Disposables(items) == Ids(SelectSeq(items, IsDisposable))
IsPrefix(a, b) == Len(a) <= Len(b) /\ SubSeq(b, 1, Len(a)) = a
Range(f) == {f[i] : i \in DOMAIN f}

\* The conditions a finished call reported or raised.
Reported == Range(bulk.log) \cup ({bulk.outcome.cond} \ {NoError})

\* A bulk call (not using) is over.
BulkDone ==
    bulk.pc = "done" /\ bulk.utility \in {"dispose", "withoutException", "these", "single"}

\* C17: dispose(...items), dispose.these(items) and dispose.single(item)
\* invoke dispose() on exactly the entries that are non-null objects with a
\* dispose function, once each and in collection order (all of them when the
\* call returns, the first ones when a dispose() raised and ended the call);
\* entries that are null, undefined or lack a dispose function are skipped:
\* nothing is raised or logged for them.
C17_BulkSkipAndOrder ==
    BulkDone =>
        /\ IsPrefix(bulk.attempts, Disposables(bulk.work))
        /\ bulk.outcome.status = "returned" => bulk.attempts = Disposables(bulk.work)
        /\ \A e \in Reported :
             /\ e.by = "item"
             /\ e.id \in Range(bulk.attempts)
             /\ \E i \in 1..Len(bulk.work) :
                  bulk.work[i].id = e.id /\ bulk.work[i].kind = "faulty"

\* dispose(a, x, b), x not disposable: a and b were disposed in that order,
\* nothing raised, nothing logged.
C17_Witness ==
    /\ bulk.pc = "done" /\ bulk.utility = "dispose"
    /\ Len(bulk.work) = 3
    /\ bulk.work[1].kind = "ok" /\ bulk.work[3].kind = "ok"
    /\ ~IsDisposable(bulk.work[2])
    /\ bulk.attempts = <<1, 3>>
    /\ bulk.log = <<>>
    /\ bulk.outcome = Returned("void")

\* The conditions raised by the dispose() of the faulty entries, in
\* collection order.
IsFaulty(item) == item.kind = "faulty"
Failures(items) ==
    LET faulty == SelectSeq(items, IsFaulty)
    IN  [i \in 1..Len(faulty) |-> ItemError(faulty[i].id)]

C19_NonTrappingAbort ==
    (BulkDone /\ ~bulk.trap /\ bulk.utility \in {"dispose", "these"}) =>
        IF \E i \in 1..Len(bulk.work) : IsFaulty(bulk.work[i])
        THEN LET n == CHOOSE i \in 1..Len(bulk.work) :
                        /\ IsFaulty(bulk.work[i])
                        /\ \A j \in 1..(i - 1) : ~IsFaulty(bulk.work[j])
             IN  /\ bulk.outcome = Raised(ItemError(bulk.work[n].id))
                 /\ bulk.attempts = Disposables(SubSeq(bulk.work, 1, n))
                 /\ \A j \in (n + 1)..Len(bulk.work) :
                      bulk.work[j].id \notin Range(bulk.attempts)
                 /\ bulk.log = <<>>
        ELSE bulk.outcome = Returned("void")

\* dispose.these([x, faulty, y]): x disposed, the condition of faulty
\* raised, y not disposed.
C19_Witness ==
    /\ bulk.pc = "done" /\ bulk.utility = "these" /\ ~bulk.trap
    /\ Len(bulk.work) = 3
    /\ bulk.work[1].kind = "ok" /\ bulk.work[2].kind = "faulty"
    /\ bulk.work[3].kind = "ok"
    /\ bulk.attempts = <<1, 2>>
    /\ bulk.outcome = Raised(ItemError(2))

\* The outcome of using() is that of the closure.
MatchesClosure ==
    /\ bulk.closure = "returned" => bulk.outcome = Returned("result")
    /\ bulk.closure = "raised" => bulk.outcome = Raised(ClosureError)

UsingDone == bulk.pc = "done" /\ bulk.utility = "using"

Deferred == bulk.utility \in {"deferred", "these.deferred", "these.deferred.unsafe"}

\* C21: dispose.deferred(...items) and dispose.these.deferred(items, delay)
\* return with no item disposed, for every delay, zero and negative included:
\* while the timer is pending nothing has been disposed and the call has
\* returned; items are disposed only after the timer fired, and the timer
\* fires no earlier than the positive delay after the call (for
\* dispose.deferred and for a delay of zero or below, at any time after the
\* call returned).
C21_DeferredDisposesLater ==
    Deferred =>
        /\ bulk.pc = "scheduled" =>
                /\ bulk.attempts = <<>>
                /\ bulk.outcome = Returned("void")
                /\ bulk.timer.state = "pending"
        /\ bulk.attempts # <<>> =>
                /\ bulk.timer.state = "fired"
                /\ bulk.now >= bulk.timer.firedAt
                /\ bulk.delay > 0 => bulk.timer.firedAt >= bulk.calledAt + bulk.delay
                /\ bulk.timer.firedAt >= bulk.calledAt
        /\ bulk.utility = "deferred" => bulk.delay = 0

\* dispose.these.deferred(items, 2): the timer fired 2 ms after the call and
\* the items were disposed then.
C21_Witness ==
    /\ bulk.utility = "these.deferred" /\ bulk.pc = "done"
    /\ bulk.delay = 2
    /\ bulk.timer.state = "fired" /\ bulk.timer.firedAt = bulk.calledAt + 2
    /\ Len(bulk.attempts) = 2

\* C22: failures during deferred disposal are always trapped: once the
\* timer has fired and its callback is over, every disposable item has had
\* its disposal attempt, also after earlier items raised, the raised
\* conditions went to console.error (where there is one), and the callback
\* returned: at no point does a condition leave it. (The attempts are those
\* of the array the timer holds: the copy, or for these.deferred.unsafe the
\* caller's array where no dispose() changed it.)
C22_DeferredAlwaysTrapped ==
    Deferred =>
        /\ bulk.outcome.status # "raised"
        /\ bulk.trap
        /\ (bulk.pc = "done" /\ bulk.timer.state = "fired") =>
                /\ bulk.outcome = Returned("void")
                /\ (~bulk.aliased \/ \A i \in 1..Len(bulk.passed) :
                                            bulk.passed[i].kind # "mutator") =>
                        /\ bulk.attempts = Disposables(bulk.passed)
                        /\ bulk.log = IF bulk.console THEN Failures(bulk.passed) ELSE <<>>

\* dispose.deferred(f, a) with f faulty: after the timer both were
\* attempted, the condition of f was logged and the callback returned.
C22_Witness ==
    /\ bulk.utility = "deferred" /\ bulk.pc = "done"
    /\ bulk.timer.state = "fired"
    /\ bulk.console
    /\ Len(bulk.work) = 2
    /\ bulk.work[1].kind = "faulty" /\ bulk.work[2].kind = "ok"
    /\ bulk.attempts = <<1, 2>>
    /\ bulk.log = <<ItemError(1)>>
    /\ bulk.outcome = Returned("void")

\* C23: dispose.these(items) iterates a copy taken at the call: when the
\* dispose() of an item adds to, removes from or reorders the caller's array,
\* the array iterated stays the one of the call, and exactly the disposable
\* items it held then are disposed, each once, in their original order (the
\* first ones of them when a dispose() raised and ended the call).
C23_TheseIteratesCopy ==
    bulk.utility = "these" =>
        /\ bulk.work = bulk.passed
        /\ IsPrefix(bulk.attempts, Disposables(bulk.passed))
        /\ (bulk.pc = "done" /\ bulk.outcome.status = "returned") =>
                bulk.attempts = Disposables(bulk.passed)
        /\ \A i, j \in 1..Len(bulk.attempts) :
                bulk.attempts[i] = bulk.attempts[j] => i = j

\* dispose.these([m, a, b]) where the dispose() of m removed the first
\* entry of the caller's array: m, a and b were disposed in that order.
C23_Witness ==
    /\ bulk.utility = "these" /\ bulk.pc = "done"
    /\ Len(bulk.passed) = 3
    /\ bulk.passed[1].kind = "mutator"
    /\ bulk.passed[2].kind = "ok" /\ bulk.passed[3].kind = "ok"
    /\ bulk.items = Tail(bulk.passed)
    /\ bulk.attempts = <<1, 2, 3>>
    /\ bulk.outcome = Returned("void")

\* The utilities that take a collection.
OfCollection ==
    bulk.utility \in {"dispose", "withoutException", "these", "these.unsafe",
                      "deferred", "these.deferred", "these.deferred.unsafe"}

\* C25: an empty, null or undefined collection passed to any bulk operation
\* is a no-op: nothing is disposed, nothing is raised or logged, the caller's
\* collection is as it was, and the deferred forms schedule no timer.
C25_EmptyCollectionNoOp ==
    (OfCollection /\ bulk.passed = <<>>) =>
        /\ bulk.attempts = <<>>
        /\ bulk.log = <<>>
        /\ bulk.outcome.status # "raised"
        /\ bulk.pc = "done" => bulk.outcome = Returned("void")
        /\ bulk.pc # "scheduled"
        /\ bulk.timer = NoTimer
        /\ bulk.items = <<>>

\* dispose.these.deferred(null, delay) returned and no timer is set.
C25_Witness ==
    /\ bulk.utility = "these.deferred" /\ bulk.pc = "done"
    /\ bulk.given = "null"
    /\ bulk.attempts = <<>>
    /\ bulk.outcome = Returned("void")
    /\ bulk.timer = NoTimer

\* C24: ObjectDisposedException.throwIfDisposed(obj, objectName, message)
\* returns true when obj.wasDisposed is false; otherwise it raises an
\* ObjectDisposedException whose objectName is the given name, whose name is
\* 'ObjectDisposedException' and whose message is the given message or, none
\* given, "Object '<objectName>' has been disposed and cannot be used.".  It
\* never changes obj.
C24_ThrowIfDisposed ==
    [][checked' # checked =>
        /\ disposeState' = disposeState
        /\ stack' = stack
        /\ IF ~WasDisposed(disposeState)
           THEN /\ ret' = "true"
                /\ exc' = NoExc
                /\ signal' = signal
           ELSE /\ exc' = "ObjectDisposedException"
                /\ signal'.name = "ObjectDisposedException"
                /\ signal'.objectName = checked'.objectName
                /\ signal'.message =
                        IF checked'.message = Undefined
                        THEN "Object '" \o checked'.objectName
                                \o "' has been disposed and cannot be used."
                        ELSE checked'.message]_vars

\* throwIfDisposed(obj, 'Resource') on a disposed obj raised the exception
\* with the default message.
C24_Witness ==
    /\ entry = "throwIfDisposed" /\ stack = <<>>
    /\ disposeState.state = DISPOSED
    /\ checked.objectName = "Resource" /\ checked.message = Undefined
    /\ exc = "ObjectDisposedException"
    /\ signal.name = "ObjectDisposedException"
    /\ signal.objectName = "Resource"
    /\ signal.message = "Object 'Resource' has been disposed and cannot be used."

\* dispose() was granted: its _startDispose() has just returned true.
DisposeGranted == Running("dispose", "afterStart") /\ ret = "true" /\ exc = NoExc

\* The promise of _onDisposeAsync() has settled and a disposeAsync() waits
\* for it.
AwaitedSettled == awaiting # {} /\ teardown \in {"resolved", "rejected"}

\* C26: under fairness, whenever dispose() is granted the state eventually
\* reaches Disposed, whether _onDispose() returns or raises; for
\* disposeAsync(), whenever the promise of _onDisposeAsync() settles, fulfilled
\* or rejected, the state eventually reaches Disposed and the finalizer (when
\* one was supplied) has run.
C26_DisposalCompletes ==
    /\ DisposeGranted ~> (disposeState.state = DISPOSED)
    /\ (Running("dispose", "finally") /\ exc # NoExc) ~> (disposeState.state = DISPOSED)
    /\ AwaitedSettled ~>
            (disposeState.state = DISPOSED /\ (supplied => count.finalizer >= 1))

\* The promise of _onDisposeAsync() was rejected, the suspended
\* disposeAsync() went on: the state is Disposed and the finalizer ran.
C26_Witness ==
    /\ kind = "async" /\ supplied
    /\ stack = <<>> /\ awaiting = {}
    /\ teardown = "rejected"
    /\ Len(promises) >= 1 /\ promises[1].ran /\ promises[1].status = "rejected"
    /\ disposeState.state = DISPOSED
    /\ count.finalizer = 1

\* A dispose() or disposeAsync() called by user code of the instance is
\* about to return to it.
ReentrantReturns ==
    /\ Len(stack) >= 2
    /\ stack[1].fn \in {"dispose", "disposeAsync"}
    /\ stack[2].fn \in Hooks

\* C27: a dispose() or disposeAsync() called on the object from inside its
\* own _onBeforeDispose, _onDispose/_onDisposeAsync or finalizer returns at
\* once: its _startDispose() returns false and the call returns (its promise
\* resolved) without invoking a hook or the finalizer and without changing
\* the state, raising nothing.  The outer disposal goes on: when no hook
\* raises, it ends in Disposed with every hook invoked once, in order.
C27_ReentrantDisposeReturns ==
    [][/\ (Reentrant /\ Top.pc = "start") =>
            /\ ret' = "false" /\ exc' = NoExc
            /\ stack' = Tail(stack)
       /\ ReentrantReturns =>
            /\ Top.pc = "afterStart"
            /\ exc' = NoExc
            /\ stack' = Tail(stack)
            /\ Top.fn = "disposeAsync" =>
                    promises'[Top.id] = [promises[Top.id] EXCEPT !.status = "resolved",
                                                                 !.at = disposeState.state]
       /\ (Reentrant \/ ReentrantReturns) =>
            /\ disposeState' = disposeState
            /\ HookCounts(count') = HookCounts(count)
            /\ order' = order
            /\ teardown' = teardown
       /\ (count'.reentrant >= 1 /\ ~direct' /\ raised' = {} /\ stack' = <<>>) =>
            /\ (kind = "sync" /\ finished' >= 1) =>
                    /\ disposeState'.state = DISPOSED
                    /\ order' = TemplateOrder
                    /\ first'.state = DISPOSED
            /\ (kind = "async" /\ promises'[1].status # "pending") =>
                    /\ disposeState'.state = DISPOSED
                    /\ order' = TemplateOrder
                    /\ teardown' = "resolved" => promises'[1].status = "resolved"]_vars

\* _onDispose() called dispose(): the call was refused and returned, and the
\* outer dispose() has finished with the state Disposed, each hook invoked
\* once.
C27_Witness ==
    /\ kind = "sync" /\ supplied
    /\ stack = <<>> /\ entry = "dispose" /\ finished = 1
    /\ count.reentrant >= 1
    /\ ~direct /\ raised = {}
    /\ exc = NoExc
    /\ disposeState.state = DISPOSED
    /\ order = TemplateOrder

\* The teardown hook of the instance's template.
TeardownHook == IF kind = "sync" THEN "_onDispose" ELSE "_onDisposeAsync"

\* The two modes of assertIsAlive, called now.
PassesNonStrict == AssertIsAliveRaises(disposeState, FALSE) = NoExc
PassesStrict == AssertIsAliveRaises(disposeState, TRUE) = NoExc

\* C28: while _onBeforeDispose executes the state is DisposeCalled:
\* wasDisposed is false, the non-strict assertIsAlive passes and the strict one
\* raises; while _onDispose/_onDisposeAsync executes (the time its promise is
\* pending included) the state is Disposing: wasDisposed is true and both
\* modes of assertIsAlive raise.  (The state a
\* hook sees is the one the template gave it for as long as the hook has not
\* itself run _finishDispose().)
C28_StateSeenByHooks ==
    /\ (OnStack("_onBeforeDispose") /\ ~disposeState.frozen) =>
            /\ disposeState.state = DISPOSE_CALLED
            /\ ~WasDisposed(disposeState)
            /\ PassesNonStrict
            /\ ~PassesStrict
    /\ ((OnStack(TeardownHook) \/ teardown = "pending") /\ ~disposeState.frozen) =>
            /\ disposeState.state = DISPOSING
            /\ WasDisposed(disposeState)
            /\ ~PassesNonStrict
            /\ ~PassesStrict
    /\ ~direct => (\A i \in 1..Len(stack) :
                        stack[i].fn \in {"_onBeforeDispose", TeardownHook}
                            => ~disposeState.frozen)

\* _onDispose called assertIsAlive(): the state is Disposing and the call
\* raised ObjectDisposedException.
C28_Witness ==
    /\ stack # <<>> /\ Top.fn = TeardownHook /\ kind = "sync"
    /\ ~direct
    /\ disposeState.state = DISPOSING
    /\ exc = "ObjectDisposedException"
    /\ signal.objectName = ConstructorName(kind)

\* C29: when _onBeforeDispose has itself advanced the state past
\* DisposeCalled (by calling _finishDispose()), the finally block of
\* _startDispose() leaves the record as it is and raises nothing of its own:
\* it writes Disposing only when the state is still exactly DisposeCalled,
\* and a state of Disposed is never overwritten with Disposing.
C29_FinallyKeepsAdvancedState ==
    [][Running("_startDispose", "finally") =>
        IF disposeState.state = DISPOSE_CALLED
        THEN disposeState' = [disposeState EXCEPT !.state = DISPOSING]
        ELSE /\ disposeState.state = DISPOSED
             /\ disposeState' = disposeState
             /\ exc' = exc
             /\ exc = NoExc => ret' = "true"]_vars

\* _onBeforeDispose called _finishDispose() and returned; _startDispose()
\* then returned true to dispose() with the state still Disposed.
C29_Witness ==
    /\ Running("dispose", "afterStart")
    /\ ret = "true" /\ exc = NoExc
    /\ disposeState.state = DISPOSED /\ disposeState.frozen
    /\ order[1] = "_onBeforeDispose"
    /\ count.teardown = 0

\* C30: through the templates alone (no call of _startDispose() or
\* _finishDispose() from outside them, user code included), every change of
\* the state is one step to the immediate successor: Alive to DisposeCalled,
\* DisposeCalled to Disposing, Disposing to Disposed; no state is skipped.
C30_NoStateSkipped ==
    [][~direct' =>
        \/ disposeState'.state = disposeState.state
        \/ disposeState'.state = disposeState.state + 1]_vars

\* A dispose() through the template has just written Disposed over
\* Disposing: _finishDispose() is about to return, no finalizer to call.
C30_Witness ==
    /\ ~direct /\ kind = "sync" /\ ~supplied
    /\ Running("dispose", "afterFinish")
    /\ disposeState.state = DISPOSED
    /\ count.granted = 1
    /\ order = TemplateOrder

\* The promise of _onDisposeAsync() is pending and nothing but the template
\* has been used.
Hung == teardown = "pending" /\ ~direct

\* C31: a hung asynchronous teardown blocks completion: for as long as the
\* promise returned by _onDisposeAsync() has not settled, the state is
\* Disposing, _finishDispose() and the finalizer have not run (the finalizer
\* is still stored), the promise of the disposeAsync() that was granted is
\* pending, and no step, a later disposeAsync() included, changes the record
\* or invokes a hook: the later calls return without effect.
C31_HungTeardownBlocks ==
    [][Hung' =>
        /\ disposeState'.state = DISPOSING
        /\ ~disposeState'.frozen
        /\ disposeState'.finalizer = supplied
        /\ count'.finalizer = 0
        /\ count'.teardown = 1
        /\ \A i \in 1..Len(promises') :
                promises'[i].ran => promises'[i].status = "pending"
        /\ (stack' = <<>> /\ promises'[1].ran) => awaiting' = {1}
        /\ Hung =>
                /\ disposeState' = disposeState
                /\ HookCounts(count') = HookCounts(count)
                /\ order' = order]_vars

\* _onDisposeAsync() returned a promise that has not settled; a second
\* disposeAsync() has returned (its promise resolved), and the state is still
\* Disposing, the first promise pending, the finalizer not invoked.
C31_Witness ==
    /\ kind = "async" /\ supplied
    /\ Hung /\ stack = <<>>
    /\ awaiting = {1}
    /\ Len(promises) >= 2
    /\ promises[1].status = "pending"
    /\ promises[2].status = "resolved"
    /\ disposeState.state = DISPOSING
    /\ disposeState.finalizer
    /\ count.finalizer = 0

\* The dispose() calls made by the callback of timer t, in order.
BatchOf(t) ==
    LET InBatch(a) == a.batch = t
    IN  Ids(SelectSeq(sched.attempts, InBatch))

Timers == 1..Len(sched.timers)

\* C32: dispose.these.deferred(items, delay) snapshots the array when it is
\* called: whatever the caller does to its array between the call and the
\* timer firing, the items disposed are those the array held at the call.
\* dispose.these.deferred.unsafe keeps the caller's array: the items disposed
\* are those the array holds when the timer fires.  Before its timer fires
\* neither has disposed anything.
C32_DeferredSnapshots ==
    \A t \in Timers :
        LET timer == sched.timers[t]
        IN  /\ timer.state # "fired" => BatchOf(t) = <<>>
            /\ (timer.state = "fired" /\ timer.utility = "these.deferred") =>
                    BatchOf(t) = Disposables(timer.passed)
            /\ (timer.state = "fired" /\ timer.utility = "these.deferred.unsafe") =>
                    BatchOf(t) = Disposables(timer.seen)

\* The caller added an object to its array after both calls: the timer of
\* dispose.these.deferred disposed the items of the call, that of
\* dispose.these.deferred.unsafe disposed the added object too.
C32_Witness ==
    /\ Len(sched.timers) = 2
    /\ sched.timers[1].utility = "these.deferred"
    /\ sched.timers[2].utility = "these.deferred.unsafe"
    /\ sched.timers[1].state = "fired" /\ sched.timers[2].state = "fired"
    /\ sched.timers[1].passed = sched.timers[2].passed
    /\ sched.items = Append(sched.timers[1].passed, [id |-> MaxItems + 1, kind |-> "ok"])
    /\ sched.timers[1].seen = sched.items /\ sched.timers[2].seen = sched.items
    /\ BatchOf(1) = Disposables(sched.timers[1].passed)
    /\ BatchOf(2) = Disposables(sched.items)
    /\ BatchOf(1) # BatchOf(2)

\* The entries the callback of timer t iterated: the copy for
\* dispose.these.deferred, the caller's array for the unsafe form.
IteratedBy(t) ==
    IF sched.timers[t].utility = "these.deferred"
    THEN sched.timers[t].passed ELSE sched.timers[t].seen

\* The items of each deferred call are disposed in collection order, the
\* batch of one call is not interrupted by that of another, and no batch is
\* disposed before its delay has elapsed.
BatchesInCollectionOrder ==
    /\ \A t \in Timers :
            sched.timers[t].state = "fired" =>
                /\ BatchOf(t) = Disposables(IteratedBy(t))
                /\ sched.timers[t].firedAt >= sched.timers[t].calledAt
                /\ sched.timers[t].delay > 0 =>
                        sched.timers[t].firedAt
                            >= sched.timers[t].calledAt + sched.timers[t].delay
    /\ \A i, j, k \in 1..Len(sched.attempts) :
            (i < k /\ k < j /\ sched.attempts[i].batch = sched.attempts[j].batch) =>
                sched.attempts[k].batch = sched.attempts[i].batch

\* The batch of the earlier call s is disposed before that of the later
\* call t.
DisposedBefore(s, t) ==
    /\ sched.timers[t].state = "fired" => sched.timers[s].state # "pending"
    /\ \A i, j \in 1..Len(sched.attempts) :
            (sched.attempts[i].batch = t /\ sched.attempts[j].batch = s) => j < i

ExposesDisposal(item) ==
    item.kind \in {"ok", "faulty", "mutator", "function", "async"}

\* C34: dispose(...), dispose.single and dispose.these accept every non-null
\* value that exposes a no-argument disposal operation, dispose() or
\* disposeAsync(), and invoke that operation on it: when the call has
\* returned, each such entry of the collection has had its operation
\* invoked.
C34_AcceptsEveryDisposal ==
    (BulkDone /\ bulk.outcome.status = "returned") =>
        \A i \in 1..Len(bulk.passed) :
            ExposesDisposal(bulk.passed[i]) => bulk.passed[i].id \in Range(bulk.attempts)

----------------------------------------------------------------------------
\* The earlier DisposableBase, which keeps a boolean __wasDisposed, beside the
\* four-state one.  Both instances are constructed with the same finalizer
\* and receive the same calls of dispose(); their overrides of _onDispose and
\* their finalizers do the same (return, raise, call dispose() again).  The
\* four-state instance keeps the default _onBeforeDispose.

LegacyFrame(fn, pc) == [fn |-> fn, pc |-> pc, pend |-> NoExc]
LegacyTop == Head(legacy.stack)
LegacyRunning(fn, pc) ==
    legacy.stack # <<>> /\ LegacyTop.fn = fn /\ LegacyTop.pc = pc
LegacyInUserCode ==
    legacy.stack # <<>> /\ LegacyTop.fn \in {"_onDispose", "finalizer"}

\* get wasDisposed(): boolean { return this.__wasDisposed; }
LegacyWasDisposed == legacy.wasDisposed

\* if(!this.__wasDisposed) { this.__wasDisposed = true;
\*     try { this._onDispose(); }
LegacyDisposeEnter ==
    /\ LegacyRunning("dispose", "start")
    /\ legacy' =
        IF legacy.wasDisposed
        THEN [legacy EXCEPT !.stack = Tail(@), !.ret = "void", !.exc = NoExc]
        ELSE [legacy EXCEPT
                !.wasDisposed = TRUE,
                !.stack = <<LegacyFrame("_onDispose", "body"),
                            [LegacyTop EXCEPT !.pc = "finally"]>> \o Tail(@),
                !.count.teardown = @ + 1,
                !.ret = "void",
                !.exc = NoExc]
    /\ UNCHANGED <<instance, bulk, sched>>

\* finally { if(this.__finalizer) { this.__finalizer();
\* What _onDispose raised is kept pending.
LegacyDisposeFinally ==
    /\ LegacyRunning("dispose", "finally")
    /\ legacy' =
        IF legacy.finalizer
        THEN [legacy EXCEPT
                !.stack = <<LegacyFrame("finalizer", "body"),
                            [LegacyTop EXCEPT !.pc = "afterFinalizer",
                                              !.pend = legacy.exc]>> \o Tail(@),
                !.count.finalizer = @ + 1,
                !.ret = "void",
                !.exc = NoExc]
        ELSE [legacy EXCEPT !.stack = Tail(@), !.ret = "void"]
    /\ UNCHANGED <<instance, bulk, sched>>

\* (this as any).__finalizer = undefined; } }
\* A finalizer that raised leaves the finally block at once, and its
\* condition replaces the pending one.
LegacyDisposeLeave ==
    /\ LegacyRunning("dispose", "afterFinalizer")
    /\ legacy' =
        IF legacy.exc # NoExc
        THEN [legacy EXCEPT !.stack = Tail(@), !.ret = "void"]
        ELSE [legacy EXCEPT !.finalizer = FALSE,
                            !.stack = Tail(@),
                            !.ret = "void",
                            !.exc = LegacyTop.pend]
    /\ UNCHANGED <<instance, bulk, sched>>

\* The earlier instance receives a call of dispose().
LegacyCalled ==
    legacy' = [legacy EXCEPT !.stack = <<LegacyFrame("dispose", "start")>> \o @,
                             !.ret = "void",
                             !.exc = NoExc]

\* Its user code returns, or raises.
LegacyLeaves(e) ==
    /\ LegacyInUserCode
    /\ legacy.exc = NoExc
    /\ legacy' = [legacy EXCEPT !.stack = Tail(@), !.ret = "void", !.exc = e]

\* A caller disposes of both instances.
BothDisposed ==
    /\ legacy.stack = <<>>
    /\ CallerDisposes
    /\ LegacyCalled
    /\ UNCHANGED <<bulk, sched>>

\* protected _onBeforeDispose(): void { }
DefaultBeforeDispose ==
    /\ InUserCode /\ Top.fn = "_onBeforeDispose"
    /\ UserReturns
    /\ UNCHANGED <<bulk, sched, legacy>>

\* The same user code is running in both: it returns, ...
BothReturn ==
    /\ InUserCode /\ Top.fn # "_onBeforeDispose"
    /\ UserReturns
    /\ LegacyLeaves(NoExc)
    /\ UNCHANGED <<bulk, sched>>

\* ... raises, ...
BothRaise ==
    /\ InUserCode /\ Top.fn # "_onBeforeDispose"
    /\ UserRaises
    /\ LegacyLeaves(OwnError(LegacyTop.fn))
    /\ UNCHANGED <<bulk, sched>>

\* ... or calls dispose() on its own instance.
BothReenter ==
    /\ InUserCode /\ Top.fn # "_onBeforeDispose"
    /\ UserCalls("dispose", FALSE)
    /\ LegacyInUserCode /\ legacy.exc = NoExc
    /\ LegacyCalled
    /\ UNCHANGED <<bulk, sched>>

InitRefinement ==
    /\ NewInstance
    /\ kind = "sync"
    /\ bulk = Idle(<<>>, TRUE)
    /\ sched = NoSchedule
    /\ legacy = NewLegacy(supplied)

NextRefinement ==
    \/ BothDisposed
    \/ DefaultBeforeDispose
    \/ BothReturn
    \/ BothRaise
    \/ BothReenter
    \/ StartDisposeEnter
    \/ StartDisposeLeave
    \/ DisposeAfterStart
    \/ DisposeFinally
    \/ FinishDisposeEnter
    \/ FinishDisposeLeave
    \/ DisposeLeave
    \/ LegacyDisposeEnter
    \/ LegacyDisposeFinally
    \/ LegacyDisposeLeave

\* The two classes side by side.
SpecRefinement == InitRefinement /\ [][NextRefinement]_vars

\* User code runs, or is about to run: in a caller between two calls, inside
\* _onDispose, inside the finalizer.
AtUserCode == stack = <<>> \/ (InUserCode /\ Top.fn # "_onBeforeDispose")
LegacyAtUserCode == legacy.stack = <<>> \/ LegacyInUserCode

SamePoint ==
    /\ (stack = <<>>) = (legacy.stack = <<>>)
    /\ stack # <<>> => Top.fn = LegacyTop.fn

\* C35: with the default _onBeforeDispose, the four-state DisposableBase and
\* the boolean-flag DisposableBase behave alike for every user behaviour:
\* wherever user code runs (before dispose(), inside _onDispose, inside the
\* finalizer, after dispose()) both are at the same place and report the same
\* wasDisposed, _onDispose and the finalizer have been invoked the same number
\* of times, and the same condition is in flight to the caller.
C35_FourStateRefinesBooleanFlag ==
    (AtUserCode /\ LegacyAtUserCode) =>
        /\ SamePoint
        /\ WasDisposed(disposeState) = LegacyWasDisposed
        /\ count.teardown = legacy.count.teardown
        /\ count.finalizer = legacy.count.finalizer
        /\ exc = legacy.exc
        /\ ret = legacy.ret

\* Both have been disposed of by a call in which _onDispose raised and the
\* finalizer ran, and the caller holds the condition of _onDispose.
C35_Witness ==
    /\ stack = <<>> /\ legacy.stack = <<>>
    /\ finished >= 1
    /\ exc = OwnError("_onDispose") /\ legacy.exc = OwnError("_onDispose")
    /\ count.finalizer = 1 /\ legacy.count.finalizer = 1
    /\ WasDisposed(disposeState) /\ LegacyWasDisposed

\* C36: a condition raised by _onDispose is never silently discarded by
\* dispose(): whenever _onDispose raised during a caller's dispose(), the
\* condition that caller receives is the one _onDispose raised, also when a
\* finalizer is present and itself raises.  Stated for the first dispose() of
\* an instance used through dispose() alone, whose _onBeforeDispose returned.
C36_TeardownConditionReceived ==
    \A c \in Conditions :
        (/\ DisposeObserved /\ finished = 1 /\ ~direct
         /\ count.teardown = 1
         /\ <<"_onDispose", c>> \in raised
         /\ \A e \in Conditions : <<"_onBeforeDispose", e>> \notin raised) =>
            exc = c


FinalizerRaised == \E c \in Conditions : <<"finalizer", c>> \in raised

\* C38: if the finalizer raises, the condition propagates out of
\* _finishDispose, and so out of the dispose() or disposeAsync() that ran it
\* (the caller receives it, the promise is rejected with it); the object is
\* by then in state Disposed with a frozen record and no stored finalizer, so
\* every later dispose() returns without raising and without running the
\* finalizer again.
C38_FinalizerRaises ==
    /\ [](FinalizerRaised =>
            /\ disposeState.state = DISPOSED
            /\ disposeState.frozen
            /\ ~disposeState.finalizer
            /\ count.finalizer = 1)
    /\ [][(Running("_finishDispose", "afterFinalizer") /\ exc # NoExc) =>
            (stack' = Tail(stack) /\ exc' = exc)]_vars
    /\ [](\A c \in Conditions :
            (DisposeObserved /\ finished = 1 /\ ~direct /\ <<"finalizer", c>> \in raised) =>
                exc = c)
    /\ [](\A c \in Conditions, i \in 1..Len(promises) :
            (/\ ~direct /\ <<"finalizer", c>> \in raised
             /\ promises[i].ran /\ promises[i].status # "pending") =>
                (promises[i].status = "rejected" /\ promises[i].cond = c))
    /\ []((/\ DisposeObserved /\ finished >= 2
           /\ FinalizerRaised /\ first.count.finalizer = 1) =>
                (exc = NoExc /\ count.finalizer = 1))

\* The finalizer raised during the first dispose(), and a later dispose() has
\* returned.
C38_Witness ==
    /\ DisposeObserved /\ finished >= 2 /\ ~direct
    /\ <<"finalizer", "FinalizerError">> \in raised
    /\ first.count.finalizer = 1
    /\ exc = NoExc /\ count.finalizer = 1
    /\ disposeState.state = DISPOSED /\ disposeState.frozen

\* The one call made besides a caller's dispose() was a _finishDispose() made
\* by _onBeforeDispose, which then returned: the finalizer was started next
\* after _onBeforeDispose, inside it.
FinishedByBeforeHook ==
    /\ DisposeObserved /\ finished = 1 /\ calls = 2 /\ direct
    /\ Len(order) >= 2 /\ order[1] = "_onBeforeDispose" /\ order[2] = "finalizer"
    /\ \A e \in Conditions : <<"_onBeforeDispose", e>> \notin raised

\* C39: a second _finishDispose() on an object whose record is already
\* frozen does not complete silently: it raises TypeError (the write to the
\* frozen record fails), the record stays as it is, in state Disposed, and
\* the finalizer is not invoked again.  In particular a dispose() whose
\* _onBeforeDispose already called _finishDispose ends with that TypeError
\* after _onDispose has run.
C39_SecondFinishFails ==
    /\ [](disposeState.frozen => disposeState.state = DISPOSED)
    /\ [][(Running("_finishDispose", "start") /\ disposeState.frozen) =>
            /\ stack' = Tail(stack)
            /\ exc' = "TypeError"
            /\ disposeState' = disposeState
            /\ count' = count
            /\ order' = order]_vars
    /\ [](FinishedByBeforeHook =>
            /\ exc = "TypeError"
            /\ count.teardown = 1
            /\ count.finalizer = 1
            /\ disposeState.state = DISPOSED)

\* dispose() has ended with TypeError after _onBeforeDispose called
\* _finishDispose and _onDispose ran.
C39_Witness ==
    /\ FinishedByBeforeHook
    /\ order = <<"_onBeforeDispose", "finalizer", "_onDispose">>
    /\ exc = "TypeError"
    /\ disposeState.state = DISPOSED /\ disposeState.frozen

----------------------------------------------------------------------------
\* The utilities given the DisposableBase instance itself: each
\* disposable.dispose() that singleUnsafe makes is a call of the instance's
\* dispose(), which runs to its end before the loop goes on; the callback of
\* a timer and a caller's own d.dispose() each run in a task of their own.

\* The instance as an entry of a collection, and the collections that hold
\* it once or twice.
TheInstance == [id |-> 1, kind |-> "instance"]
InstanceArrays == {<<TheInstance>>, <<TheInstance, TheInstance>>}

\* dispose.these(disposables, trapExceptions)
ComposedThese == stack = <<>> /\ DisposeThese

\* dispose.these.deferred(disposables), the delay left out
ComposedTheseDeferred ==
    /\ stack = <<>>
    /\ bulk.pc = "idle"
    /\ DeferredUnsafe("these.deferred", Slice(Given), 0)
    /\ UNCHANGED <<instance, sched, legacy>>

\* The callback of the timer runs when nothing else does.
ComposedTimerFires == stack = <<>> /\ TimerFires

\* A caller disposes of the instance itself, before, after or instead of the
\* utility, and while the timer is pending.
DirectDispose ==
    /\ bulk.pc \in {"idle", "scheduled", "done"}
    /\ CallDispose

\* theseUnsafe: one turn of the loop, or its end.  singleUnsafe finds an
\* object with a dispose function and calls disposable.dispose().
ComposedTheseUnsafe ==
    /\ bulk.pc = "loop"
    /\ stack = <<>>
    /\ IF bulk.index > Len(bulk.work)
       THEN /\ bulk' = Done(bulk.utility, Returned("void"))
            /\ UNCHANGED instance
       ELSE LET d == bulk.work[bulk.index]
            IN  /\ Truthy(d) /\ TypeOf(d) = "object" /\ TypeOfDispose(d) = "function"
                /\ CallerDisposes
                /\ bulk' = [bulk EXCEPT !.pc = "call", !.attempts = Append(@, d.id)]
    /\ UNCHANGED <<sched, legacy>>

\* disposable.dispose() is over.  With trapException its condition is caught
\* and given to console.error; without, it leaves singleUnsafe, the loop and
\* the utility.
ComposedSingleUnsafe ==
    /\ bulk.pc = "call"
    /\ stack = <<>>
    /\ LET d == bulk.work[bulk.index]
           ex == IF exc = NoExc THEN NoError ELSE ItemError(d.id)
       IN  bulk' = IF ex # NoError /\ ~bulk.trap
                   THEN Done(bulk.utility, Raised(ex))
                   ELSE [bulk EXCEPT !.pc = "loop",
                                     !.index = @ + 1,
                                     !.log = IF ex # NoError /\ bulk.console
                                             THEN Append(@, ex) ELSE @]
    /\ UNCHANGED <<instance, sched, legacy>>

InitComposition ==
    /\ NewInstance
    /\ kind = "sync"
    /\ bulk \in {Idle(items, TRUE) : items \in InstanceArrays}
    /\ sched = NoSchedule
    /\ legacy = NewLegacy(supplied)

NextComposition ==
    \/ ComposedThese
    \/ ComposedTheseDeferred
    \/ ComposedTimerFires
    \/ DirectDispose
    \/ ComposedTheseUnsafe
    \/ ComposedSingleUnsafe
    \/ StartDisposeEnter
    \/ StartDisposeLeave
    \/ DisposeAfterStart
    \/ DisposeFinally
    \/ FinishDisposeEnter
    \/ FinishDisposeLeave
    \/ DisposeLeave
    \/ AssertIsAlive
    \/ HookReturns
    \/ HookRaises
    \/ HookCalls
    \/ HookCatches
    \/ HookPropagates

\* The utilities and the instance together.
SpecComposition == InitComposition /\ [][NextComposition]_vars

\* C40: composing the bulk utilities with the state machine keeps
\* at-most-once teardown: when the instance has been disposed of more than
\* once, by a collection that holds it several times or by a direct dispose()
\* beside a deferred disposal, in any order of the direct call and the
\* callback of the timer, _onDispose and (when supplied) the finalizer have
\* run once in total, and the later attempt was a no-op that raised nothing.
C40_ComposedTeardownOnce ==
    (stack = <<>> /\ finished >= 2 /\ Len(bulk.attempts) >= 1) =>
        /\ count.teardown = 1
        /\ (supplied => count.finalizer = 1)
        /\ exc = NoExc
====
